---------------------------- MODULE Spec2Model ----------------------------
(***************************************************************************)
(* Model of the account engine of bank_system (AccountManager) on top of   *)
(* its SQLite store (DatabaseManager).                                     *)
(*                                                                         *)
(* Money is counted in kopecks (integer hundredths of a rouble): the       *)
(* engine computes with decimal.Decimal, which is exact on such values.    *)
(* The store keeps amounts as SQLite REAL; a single value of two decimal   *)
(* places survives float() -> str() -> Decimal() unchanged, but SQL SUM()  *)
(* adds binary doubles, so the day total is modelled in IEEE-754 binary64  *)
(* arithmetic (see the Double section).                                    *)
(***************************************************************************)
EXTENDS Integers, Sequences, FiniteSets, TLC

VARIABLES accounts, ledger, now, last, writes

vars == <<accounts, ledger, now, last, writes>>

(***************************************************************************)
(* Bounds of the model.                                                    *)
(***************************************************************************)
MaxAccounts == 2
MaxLedger == 3
MaxMoneyLedger == 3
MaxDayLedger == 5
MaxFreezeLedger == 5
MaxBulkLedger == 5
MaxFrozenLedger == 5
MaxFailLedger == 3
MaxFailBalance == 20
MaxLifeLedger == 4
MaxInterestLedger == 4
MaxInterestTime == 2
MaxReadLedger == 3
MaxReadTime == 2
DaysPerMonth == 2
MaxEntryLedger == 3
MaxEntryTime == 1
MaxAuditLedger == 3
MaxAuditTime == 1
MaxAccrualLedger == 3
MaxAccrualTime == 2
MaxBulkFailLedger == 5
MaxNumberAccounts == 3
MaxNumber == 3
MaxTries == 2
MaxTime == 1
MaxLegs == 2

(* Optional values: Python's None. *)
None == -1

(***************************************************************************)
(* Inputs the callers are drawn from.                                      *)
(***************************************************************************)
Amounts == {0, 10, 11}
InitialDeposits == {-10, 0, 20}
MinimumBalances == {-10, 0, 10}
Names == {<<>>, <<" ">>, <<" ", "a", " ">>}
Limits == {None, -10, 0, 10, 31}
AccountIds == 1..(MaxAccounts + 1)

(***************************************************************************)
(* models.py                                                               *)
(***************************************************************************)
TransactionType ==
    {"deposit", "withdrawal", "transfer_in", "transfer_out", "interest", "fee",
     "bulk_transfer_out", "bulk_transfer_in"}

Account(number, name, balance, minimum, created) ==
    [account_number |-> number,
     customer_name |-> name,
     balance |-> balance,
     created_at |-> created,
     is_active |-> TRUE,
     minimum_balance |-> minimum,
     is_frozen |-> FALSE,
     daily_withdrawal_limit |-> None,
     interest_rate |-> 0,
     last_interest_calculation |-> None]

Transaction(aid, type, amount, description, balance_after, related) ==
    [account_id |-> aid,
     transaction_type |-> type,
     amount |-> amount,
     description |-> description,
     timestamp |-> now,
     balance_after |-> balance_after,
     related_account_id |-> related]

(* Faulty variants of can_withdraw: one compares with zero instead of the
   minimum balance, the other refuses to land on the minimum itself. *)
can_withdraw_above_zero(account, amount) ==
    IF account.is_frozen
    THEN FALSE
    ELSE account.balance - amount >= 0

(* Faulty variant: the freeze is not consulted. *)
can_withdraw_frozen(account, amount) ==
    account.balance - amount >= account.minimum_balance

can_withdraw_strict(account, amount) ==
    IF account.is_frozen
    THEN FALSE
    ELSE account.balance - amount > account.minimum_balance

can_withdraw(account, amount) ==
    IF account.is_frozen
    THEN FALSE
    ELSE account.balance - amount >= account.minimum_balance

(***************************************************************************)
(* database.py: the store.  Account ids are the AUTOINCREMENT row ids, so  *)
(* the table is a sequence indexed by account_id.  Every write takes the   *)
(* outcome ok of the SQL statement: on sqlite3.Error the method logs,      *)
(* changes nothing and returns False/None.                                 *)
(***************************************************************************)
Exists(aid) == aid \in DOMAIN accounts

(* Faulty variant: the lookup finds no account. *)
get_account_by_number_none(number) == {}

get_account_by_number(number) ==
    {i \in DOMAIN accounts : accounts[i].account_number = number}

update_account_balance(accs, aid, new_balance, ok) ==
    IF ok THEN [accs EXCEPT ![aid].balance = new_balance] ELSE accs

db_deactivate_account(accs, aid, ok) ==
    IF ok THEN [accs EXCEPT ![aid].is_active = FALSE] ELSE accs

(* Faulty variant: writing the flag reopens the account. *)
db_freeze_account_reactivating(accs, aid, is_frozen, ok) ==
    IF ok THEN [accs EXCEPT ![aid].is_frozen = is_frozen, ![aid].is_active = TRUE]
    ELSE accs

(* Faulty variant: the flag written is always set. *)
db_freeze_account_always(accs, aid, is_frozen, ok) ==
    IF ok THEN [accs EXCEPT ![aid].is_frozen = TRUE] ELSE accs

db_freeze_account(accs, aid, is_frozen, ok) ==
    IF ok THEN [accs EXCEPT ![aid].is_frozen = is_frozen] ELSE accs

(* float(limit) if limit else None: a limit of 0 is falsy and stored as NULL. *)
db_set_daily_withdrawal_limit(accs, aid, limit, ok) ==
    IF ok
    THEN [accs EXCEPT ![aid].daily_withdrawal_limit =
                         IF limit /= None /\ limit /= 0 THEN limit ELSE None]
    ELSE accs

(* Faulty variant: the time of the accrual is not stored. *)
update_interest_calculation_lost(accs, aid, last_calculation, ok) == accs

update_interest_calculation(accs, aid, last_calculation, ok) ==
    IF ok THEN [accs EXCEPT ![aid].last_interest_calculation = last_calculation] ELSE accs

(* Faulty variant: the entry takes the place of the last entry written
   (INSERT OR REPLACE on a reused key). *)
create_transaction_replacing(led, txn, ok) ==
    IF ~ok THEN led
    ELSE IF led = <<>> THEN <<txn>>
    ELSE [led EXCEPT ![Len(led)] = txn]

create_transaction(led, txn, ok) == IF ok THEN Append(led, txn) ELSE led

(* The calendar date of a timestamp: the clock counts days. *)
Date(t) == t

RECURSIVE SumSeq(_)
SumSeq(s) == IF s = <<>> THEN 0 ELSE s[1] + SumSeq(Tail(s))

(***************************************************************************)
(* IEEE-754 binary64.  The store binds float(amount) to the amount column  *)
(* and SQL SUM() adds the stored doubles, so the day total is a double.    *)
(* A non-negative double is zero or 2^(e - 52) * (h * 2^27 + l): e is the  *)
(* exponent and h (26 bits, the leading one set) and l (27 bits) are the   *)
(* two limbs of the 53-bit significand.                                    *)
(***************************************************************************)
Limb == 134217728

HalfLimb == 67108864

Zero == [zero |-> TRUE, e |-> 0, h |-> 0, l |-> 0]

RECURSIVE Pow2(_)
Pow2(n) == IF n = 0 THEN 1 ELSE 2 * Pow2(n - 1)

(* The e with 2^e <= num / den < 2^(e + 1). *)
RECURSIVE Exponent(_, _)
Exponent(num, den) ==
    IF num >= 2 * den THEN Exponent(num, 2 * den) + 1
    ELSE IF num < den THEN Exponent(2 * num, den) - 1
    ELSE 0

(* Round to nearest, ties to even.  The exact value is
   2^(e - 52) * (h * 2^27 + l + x / 2^27 + something below, if sticky),
   with 2^52 <= h * 2^27 + l < 2^54. *)
RoundNearestEven(e, h, l, x, sticky) ==
    LET big == h >= HalfLimb
        (* one more bit to the left: shift everything right by one *)
        e1 == IF big THEN e + 1 ELSE e
        h1 == IF big THEN h \div 2 ELSE h
        l1 == IF big THEN (l \div 2) + (h % 2) * HalfLimb ELSE l
        x1 == IF big THEN (x \div 2) + (l % 2) * HalfLimb ELSE x
        s1 == IF big THEN sticky \/ x % 2 = 1 ELSE sticky
        guard == x1 >= HalfLimb
        up == guard /\ (s1 \/ x1 % HalfLimb /= 0 \/ l1 % 2 = 1)
        l2 == IF up THEN (l1 + 1) % Limb ELSE l1
        h2 == IF up /\ l1 + 1 = Limb THEN h1 + 1 ELSE h1
    IN IF h2 = HalfLimb
       THEN [zero |-> FALSE, e |-> e1 + 1, h |-> HalfLimb \div 2, l |-> 0]
       ELSE [zero |-> FALSE, e |-> e1, h |-> h2, l |-> l2]

(* The next n digits in base 512 of the fraction rem / den < 1, followed by
   what is left of rem (0 when the digits are exact). *)
RECURSIVE Digits(_, _, _)
Digits(rem, den, n) ==
    IF n = 0 THEN <<rem>>
    ELSE <<(rem * 512) \div den>> \o Digits((rem * 512) % den, den, n - 1)

(* float(Decimal) of an amount of c kopecks: the double nearest to c / 100. *)
ToDouble(c) ==
    IF c = 0 THEN Zero
    ELSE LET e == Exponent(c, 100)
             num == IF e < 0 THEN c * Pow2(-e) ELSE c
             den == IF e > 0 THEN 100 * Pow2(e) ELSE 100
             (* num / den = 1.f: six digits are the first 54 bits of f *)
             d == Digits(num - den, den, 6)
         IN RoundNearestEven(e,
                (HalfLimb \div 2) + d[1] * 65536 + d[2] * 128 + (d[3] \div 4),
                (d[3] % 4) * (HalfLimb \div 2) + d[4] * 65536 + d[5] * 128 + (d[6] \div 4),
                (d[6] % 4) * (HalfLimb \div 2),
                d[7] /= 0)

(* <<h, l, x>> shifted right by n < 27 bits, and whether ones were lost. *)
ShiftRight(h, l, x, n) ==
    LET p == Pow2(n)
        q == Pow2(27 - n)
    IN [h |-> h \div p,
        l |-> (l \div p) + (h % p) * q,
        x |-> (x \div p) + (l % p) * q,
        lost |-> x % p /= 0]

DoubleAdd(a, b) ==
    IF a.zero THEN b
    ELSE IF b.zero THEN a
    ELSE LET hi == IF a.e >= b.e THEN a ELSE b
             lo == IF a.e >= b.e THEN b ELSE a
             d == hi.e - lo.e
             (* lo aligned to the exponent of hi *)
             s == IF d < 27 THEN ShiftRight(lo.h, lo.l, 0, d)
                  ELSE ShiftRight(0, lo.h, lo.l, d - 27)
             l == hi.l + s.l
         IN IF d >= 54 THEN hi
            ELSE RoundNearestEven(hi.e, hi.h + s.h + (l \div Limb), l % Limb, s.x, s.lost)

DoubleLeq(a, b) ==
    IF a.zero THEN TRUE
    ELSE IF b.zero THEN FALSE
    ELSE IF a.e /= b.e THEN a.e < b.e
    ELSE IF a.h /= b.h THEN a.h < b.h
    ELSE a.l <= b.l

DebitTypes == {"withdrawal", "transfer_out", "bulk_transfer_out"}

(* The amounts get_daily_withdrawals sums, in rowid order. *)
DayDebitAmounts(led, aid, day) ==
    LET rows == SelectSeq(led, LAMBDA t : /\ t.account_id = aid
                                          /\ t.transaction_type \in DebitTypes
                                          /\ Date(t.timestamp) = day)
    IN [i \in DOMAIN rows |-> rows[i].amount]

(* SUM(amount): the stored doubles added one after the other. *)
RECURSIVE DoubleSum(_)
DoubleSum(amounts) ==
    IF amounts = <<>> THEN Zero
    ELSE DoubleAdd(DoubleSum(SubSeq(amounts, 1, Len(amounts) - 1)),
                   ToDouble(amounts[Len(amounts)]))

get_daily_withdrawals(led, aid, date) == DoubleSum(DayDebitAmounts(led, aid, date))

(* daily_withdrawals + amount <= limit in Decimal, where daily_withdrawals is
   Decimal(str(d)) of the double d the store returned.  str(d) is the shortest
   decimal that reads back as d, so it is x / 100 exactly when d is the double
   of x kopecks, and the order of two such decimals is the order of their
   doubles: Decimal(str(d)) <= (limit - amount) / 100 iff
   d <= float((limit - amount) / 100). *)
is_within_daily_limit(account, amount, daily_withdrawals) ==
    IF account.daily_withdrawal_limit = None
    THEN TRUE
    ELSE /\ account.daily_withdrawal_limit - amount >= 0
         /\ DoubleLeq(daily_withdrawals, ToDouble(account.daily_withdrawal_limit - amount))

(***************************************************************************)
(* The result of the last engine call: what was called, with which         *)
(* arguments, and how it ended ("ok", "false" for a False/None return, or  *)
(* the kind of the ValueError raised).  For bulk_transfer, legs is the     *)
(* list passed in and succeeded the indexes of successful_transfers.       *)
(* writes keeps the answers the store gave to the writes of that call.     *)
(***************************************************************************)
Reply(op, aid, to, amount, result) ==
    [op |-> op, aid |-> aid, to |-> to, amount |-> amount, result |-> result,
     legs |-> <<>>, succeeded |-> {}, args |-> <<>>, calls |-> <<>>]

BulkReply(aid, legs, result, succeeded) ==
    [op |-> "bulk_transfer", aid |-> aid, to |-> 0, amount |-> SumSeq([i \in DOMAIN legs |-> legs[i].amount]),
     result |-> result, legs |-> legs, succeeded |-> succeeded, args |-> <<>>,
     calls |-> <<>>]

(* The store writes a call attempted, in the order of the attempts: which
   write, for which account, in which leg of the call, and the store's
   answer. *)
Write(write, aid, leg, ok) == [write |-> write, account_id |-> aid, leg |-> leg, ok |-> ok]

BalanceWrite(aid, leg, ok) == Write("update_account_balance", aid, leg, ok)

LedgerWrite(aid, leg, ok) == Write("create_transaction", aid, leg, ok)

Called(reply, calls) == [reply EXCEPT !.calls = calls]

Errors ==
    {"validation", "not_found", "inactive", "frozen", "insufficient_funds",
     "daily_limit", "already_frozen", "not_frozen"}

(* Faulty variant: the refused call is written to the ledger. *)
Raise_logged(reply) ==
    /\ last' = reply
    /\ ledger' = Append(ledger, [account_id |-> reply.aid,
                                 transaction_type |-> "fee",
                                 amount |-> 0,
                                 description |-> "Rejected",
                                 timestamp |-> now,
                                 balance_after |-> 0,
                                 related_account_id |-> None])
    /\ UNCHANGED <<accounts, now>>

Raise(reply) ==
    /\ last' = reply
    /\ UNCHANGED <<accounts, ledger, now>>

(***************************************************************************)
(* account_manager.py.  Each operation takes the caller's arguments and w, *)
(* the outcomes of the store writes the call attempts, in order.           *)
(***************************************************************************)
RECURSIVE LStrip(_)
LStrip(name) ==
    IF name /= <<>> /\ Head(name) = " " THEN LStrip(Tail(name)) ELSE name

Reverse(name) == [i \in 1..Len(name) |-> name[Len(name) + 1 - i]]

(* Faulty variant: blanks count as the characters of a name. *)
Strip_blanks_kept(name) == name

(* str.strip(): the name without its leading and trailing blanks. *)
Strip(name) == Reverse(LStrip(Reverse(LStrip(name))))

(* Faulty variant: a withdrawal leaves a second entry, for the fee. *)
record_withdrawal_with_fee(led, aid, type, amount, description, balance_after, related, ok) ==
    IF type = "withdrawal"
    THEN create_transaction(
             create_transaction(led,
                 Transaction(aid, type, amount, description, balance_after, related), ok),
             Transaction(aid, "fee", 0, "Withdrawal fee", balance_after, None), ok)
    ELSE create_transaction(led,
             Transaction(aid, type, amount, description, balance_after, related), ok)

(* Faulty variant: the related account is not recorded. *)
record_transaction_unrelated(led, aid, type, amount, description, balance_after, related, ok) ==
    create_transaction(led,
        Transaction(aid, type, amount, description, balance_after, None), ok)

(* Faulty variant: the entry records the balance before the change. *)
record_transaction_balance_before(led, aid, type, amount, description, balance_after, related, ok) ==
    create_transaction(led, Transaction(aid, type, amount, description,
                                        balance_after - amount, related), ok)

record_transaction(led, aid, type, amount, description, balance_after, related, ok) ==
    create_transaction(led,
        Transaction(aid, type, amount, description, balance_after, related), ok)

(* The while loop over generate_account_number(): the first proposed number
   no stored account holds. *)
RECURSIVE FirstFree(_)
FirstFree(candidates) ==
    IF candidates = <<>> THEN None
    ELSE IF get_account_by_number(Head(candidates)) = {} THEN Head(candidates)
    ELSE FirstFree(Tail(candidates))

(* Faulty variant: the created account starts frozen. *)
NewAccount_frozen(number, name, balance, minimum, created) ==
    [Account(number, name, balance, minimum, created) EXCEPT !.is_frozen = TRUE]

(* The Account object create_account builds. *)
NewAccount(number, name, balance, minimum, created) ==
    Account(number, name, balance, minimum, created)

CreateAccount(name, initial_deposit, minimum_balance, candidates, w) ==
    LET R(aid, result) ==
            [Reply("create_account", aid, 0, initial_deposit, result) EXCEPT
                !.args = [customer_name |-> name,
                          minimum_balance |-> minimum_balance,
                          candidates |-> candidates]]
    IN IF \/ Strip(name) = <<>>
          \/ initial_deposit < 0
          \/ minimum_balance < 0
          \/ initial_deposit < minimum_balance
       THEN Raise(R(0, "validation"))
       ELSE /\ FirstFree(candidates) /= None
            /\ IF w[1]
               THEN LET account_id == Len(accounts) + 1
                    IN /\ accounts' = Append(accounts,
                              NewAccount(FirstFree(candidates), Strip(name),
                                         initial_deposit, minimum_balance, now))
                       /\ ledger' = IF initial_deposit > 0
                                    THEN record_transaction(ledger, account_id, "deposit",
                                             initial_deposit, "Initial deposit",
                                             initial_deposit, None, w[2])
                                    ELSE ledger
                       /\ last' = Called(R(account_id, "ok"),
                                         <<Write("create_account", account_id, 1, TRUE)>>
                                         \o (IF initial_deposit > 0
                                             THEN <<LedgerWrite(account_id, 1, w[2])>>
                                             ELSE <<>>))
                       /\ UNCHANGED now
               ELSE Raise(Called(R(0, "false"),
                                <<Write("create_account", Len(accounts) + 1, 1, FALSE)>>))

(* Faulty variant: the deposit replaces the balance. *)
DepositBalance_replaced(account, amount) == amount

(* new_balance = account.balance + amount *)
DepositBalance(account, amount) == account.balance + amount

(* Faulty variant: the entry is written before the balance. *)
Deposit_entry_first(aid, amount, w) ==
    LET R(result) == Reply("deposit", aid, 0, amount, result)
    IN IF amount <= 0 THEN Raise(R("validation"))
       ELSE IF ~Exists(aid) THEN Raise(R("not_found"))
       ELSE IF ~accounts[aid].is_active THEN Raise(R("inactive"))
       ELSE LET new_balance == DepositBalance(accounts[aid], amount)
            IN /\ ledger' = record_transaction(ledger, aid, "deposit", amount,
                                "Deposit", new_balance, None, w[2])
               /\ accounts' = update_account_balance(accounts, aid, new_balance, w[1])
               /\ last' = Called(R(IF w[1] THEN "ok" ELSE "false"),
                                 <<LedgerWrite(aid, 1, w[2]), BalanceWrite(aid, 1, w[1])>>)
               /\ UNCHANGED now

Deposit(aid, amount, w) ==
    LET R(result) == Reply("deposit", aid, 0, amount, result)
    IN IF amount <= 0 THEN Raise(R("validation"))
       ELSE IF ~Exists(aid) THEN Raise(R("not_found"))
       ELSE IF ~accounts[aid].is_active THEN Raise(R("inactive"))
       ELSE LET new_balance == DepositBalance(accounts[aid], amount)
            IN IF w[1]
               THEN /\ accounts' = update_account_balance(accounts, aid, new_balance, TRUE)
                    /\ ledger' = record_transaction(ledger, aid, "deposit", amount,
                                     "Deposit", new_balance, None, w[2])
                    /\ last' = Called(R("ok"), <<BalanceWrite(aid, 1, TRUE),
                                                 LedgerWrite(aid, 1, w[2])>>)
                    /\ UNCHANGED now
               ELSE Raise(Called(R("false"), <<BalanceWrite(aid, 1, FALSE)>>))

(* new_balance = account.balance - amount *)
WithdrawBalance(account, amount) == account.balance - amount

Withdraw(aid, amount, w) ==
    LET R(result) == Reply("withdraw", aid, 0, amount, result)
    IN IF amount <= 0 THEN Raise(R("validation"))
       ELSE IF ~Exists(aid) THEN Raise(R("not_found"))
       ELSE IF ~accounts[aid].is_active THEN Raise(R("inactive"))
       ELSE IF accounts[aid].is_frozen THEN Raise(R("frozen"))
       ELSE IF ~can_withdraw(accounts[aid], amount) THEN Raise(R("insufficient_funds"))
       ELSE IF /\ accounts[aid].daily_withdrawal_limit /= None
               /\ ~is_within_daily_limit(accounts[aid], amount,
                       get_daily_withdrawals(ledger, aid, Date(now)))
            THEN Raise(R("daily_limit"))
       ELSE LET new_balance == WithdrawBalance(accounts[aid], amount)
            IN IF w[1]
               THEN /\ accounts' = update_account_balance(accounts, aid, new_balance, TRUE)
                    /\ ledger' = record_transaction(ledger, aid, "withdrawal", amount,
                                     "Withdrawal", new_balance, None, w[2])
                    /\ last' = Called(R("ok"), <<BalanceWrite(aid, 1, TRUE),
                                                 LedgerWrite(aid, 1, w[2])>>)
                    /\ UNCHANGED now
               ELSE Raise(Called(R("false"), <<BalanceWrite(aid, 1, FALSE)>>))

(* Faulty variant: the source keeps its balance. *)
TransferBalances_undebited(from_account, to_account, amount) ==
    <<from_account.balance, to_account.balance + amount>>

(* <<from_new_balance, to_new_balance>> *)
TransferBalances(from_account, to_account, amount) ==
    <<from_account.balance - amount, to_account.balance + amount>>

(* Faulty variant: the source's entry is written as soon as the source is
   debited, before the credit of the destination is known. *)
Transfer_early_entry(from, to, amount, w) ==
    LET R(result) == Reply("transfer", from, to, amount, result)
    IN IF amount <= 0 THEN Raise(R("validation"))
       ELSE IF from = to THEN Raise(R("validation"))
       ELSE IF ~Exists(from) THEN Raise(R("not_found"))
       ELSE IF ~Exists(to) THEN Raise(R("not_found"))
       ELSE IF ~accounts[from].is_active THEN Raise(R("inactive"))
       ELSE IF ~accounts[to].is_active THEN Raise(R("inactive"))
       ELSE IF ~can_withdraw(accounts[from], amount) THEN Raise(R("insufficient_funds"))
       ELSE LET from_new_balance == accounts[from].balance - amount
                to_new_balance == accounts[to].balance + amount
                both == w[1] /\ w[2]
                debited == update_account_balance(accounts, from, from_new_balance, w[1])
                out == record_transaction(ledger, from, "transfer_out", amount,
                           "Transfer to", from_new_balance, to, w[1] /\ w[3])
            IN /\ accounts' = update_account_balance(debited, to, to_new_balance, both)
               /\ ledger' = IF both
                            THEN record_transaction(out, to, "transfer_in", amount,
                                     "Transfer from", to_new_balance, from, w[4])
                            ELSE out
               /\ last' = R(IF both THEN "ok" ELSE "false")
               /\ UNCHANGED now

(* Faulty variant: a failed credit is followed by a write that puts the
   source's balance back. *)
Transfer_compensated(from, to, amount, w) ==
    LET R(result) == Reply("transfer", from, to, amount, result)
    IN IF amount <= 0 THEN Raise(R("validation"))
       ELSE IF from = to THEN Raise(R("validation"))
       ELSE IF ~Exists(from) THEN Raise(R("not_found"))
       ELSE IF ~Exists(to) THEN Raise(R("not_found"))
       ELSE IF ~accounts[from].is_active THEN Raise(R("inactive"))
       ELSE IF ~accounts[to].is_active THEN Raise(R("inactive"))
       ELSE IF ~can_withdraw(accounts[from], amount) THEN Raise(R("insufficient_funds"))
       ELSE LET from_new_balance == accounts[from].balance - amount
                to_new_balance == accounts[to].balance + amount
                both == w[1] /\ w[2]
                debited == update_account_balance(accounts, from, from_new_balance, both)
                out == record_transaction(ledger, from, "transfer_out", amount,
                           "Transfer to", from_new_balance, to, w[3])
            IN /\ accounts' = update_account_balance(debited, to, to_new_balance, both)
               /\ ledger' = IF both
                            THEN record_transaction(out, to, "transfer_in", amount,
                                     "Transfer from", to_new_balance, from, w[4])
                            ELSE ledger
               /\ last' = Called(R(IF both THEN "ok" ELSE "false"),
                                 <<BalanceWrite(from, 1, w[1])>>
                                 \o (IF w[1] THEN <<BalanceWrite(to, 1, w[2])>> ELSE <<>>)
                                 \o (IF both
                                     THEN <<LedgerWrite(from, 1, w[3]), LedgerWrite(to, 1, w[4])>>
                                     ELSE <<>>)
                                 \o (IF w[1] /\ ~w[2]
                                     THEN <<BalanceWrite(from, 1, TRUE)>>
                                     ELSE <<>>))
               /\ UNCHANGED now

Transfer(from, to, amount, w) ==
    LET R(result) == Reply("transfer", from, to, amount, result)
    IN IF amount <= 0 THEN Raise(R("validation"))
       ELSE IF from = to THEN Raise(R("validation"))
       ELSE IF ~Exists(from) THEN Raise(R("not_found"))
       ELSE IF ~Exists(to) THEN Raise(R("not_found"))
       ELSE IF ~accounts[from].is_active THEN Raise(R("inactive"))
       ELSE IF ~accounts[to].is_active THEN Raise(R("inactive"))
       ELSE IF ~can_withdraw(accounts[from], amount) THEN Raise(R("insufficient_funds"))
       ELSE LET from_new_balance == TransferBalances(accounts[from], accounts[to], amount)[1]
                to_new_balance == TransferBalances(accounts[from], accounts[to], amount)[2]
                (* "and" short-circuits: the second write is attempted only
                   if the first succeeded *)
                both == w[1] /\ w[2]
                debited == update_account_balance(accounts, from, from_new_balance, w[1])
                out == record_transaction(ledger, from, "transfer_out", amount,
                           "Transfer to", from_new_balance, to, w[3])
            IN /\ accounts' = update_account_balance(debited, to, to_new_balance, both)
               /\ ledger' = IF both
                            THEN record_transaction(out, to, "transfer_in", amount,
                                     "Transfer from", to_new_balance, from, w[4])
                            ELSE ledger
               /\ last' = Called(R(IF both THEN "ok" ELSE "false"),
                                 <<BalanceWrite(from, 1, w[1])>>
                                 \o (IF w[1] THEN <<BalanceWrite(to, 1, w[2])>> ELSE <<>>)
                                 \o (IF both
                                     THEN <<LedgerWrite(from, 1, w[3]), LedgerWrite(to, 1, w[4])>>
                                     ELSE <<>>))
               /\ UNCHANGED now

(* Faulty variant: the balance is not looked at. *)
DeactivateAccount_any_balance(aid, w) ==
    LET R(result) == Reply("deactivate_account", aid, 0, 0, result)
    IN IF ~Exists(aid) THEN Raise(R("not_found"))
       ELSE /\ accounts' = db_deactivate_account(accounts, aid, w[1])
            /\ last' = R(IF w[1] THEN "ok" ELSE "false")
            /\ UNCHANGED <<ledger, now>>

(* Faulty variant: an account is closed when nothing can be drawn from it,
   that is at its minimum balance. *)
DeactivateAccount_at_minimum(aid, w) ==
    LET R(result) == Reply("deactivate_account", aid, 0, 0, result)
    IN IF ~Exists(aid) THEN Raise(R("not_found"))
       ELSE IF accounts[aid].balance /= accounts[aid].minimum_balance
       THEN Raise(R("validation"))
       ELSE /\ accounts' = db_deactivate_account(accounts, aid, w[1])
            /\ last' = Called(R(IF w[1] THEN "ok" ELSE "false"),
                              <<Write("deactivate_account", aid, 1, w[1])>>)
            /\ UNCHANGED <<ledger, now>>

DeactivateAccount(aid, w) ==
    LET R(result) == Reply("deactivate_account", aid, 0, 0, result)
    IN IF ~Exists(aid) THEN Raise(R("not_found"))
       ELSE IF accounts[aid].balance /= 0 THEN Raise(R("validation"))
       ELSE /\ accounts' = db_deactivate_account(accounts, aid, w[1])
            /\ last' = Called(R(IF w[1] THEN "ok" ELSE "false"),
                              <<Write("deactivate_account", aid, 1, w[1])>>)
            /\ UNCHANGED <<ledger, now>>

(* Faulty variant: freezing leaves no entry in the ledger. *)
FreezeAccount_unlogged(aid, w) ==
    LET R(result) == Reply("freeze_account", aid, 0, 0, result)
    IN IF ~Exists(aid) THEN Raise(R("not_found"))
       ELSE IF accounts[aid].is_frozen THEN Raise(R("already_frozen"))
       ELSE IF ~accounts[aid].is_active THEN Raise(R("inactive"))
       ELSE /\ accounts' = db_freeze_account(accounts, aid, TRUE, w[1])
            /\ last' = R(IF w[1] THEN "ok" ELSE "false")
            /\ UNCHANGED <<ledger, now>>

FreezeAccount(aid, w) ==
    LET R(result) == Reply("freeze_account", aid, 0, 0, result)
    IN IF ~Exists(aid) THEN Raise(R("not_found"))
       ELSE IF accounts[aid].is_frozen THEN Raise(R("already_frozen"))
       ELSE IF ~accounts[aid].is_active THEN Raise(R("inactive"))
       ELSE /\ accounts' = db_freeze_account(accounts, aid, TRUE, w[1])
            /\ ledger' = IF w[1]
                         THEN record_transaction(ledger, aid, "fee", 0, "Account frozen",
                                  accounts[aid].balance, None, w[2])
                         ELSE ledger
            /\ last' = Called(R(IF w[1] THEN "ok" ELSE "false"),
                              <<Write("freeze_account", aid, 1, w[1])>>
                              \o (IF w[1] THEN <<LedgerWrite(aid, 1, w[2])>> ELSE <<>>))
            /\ UNCHANGED now

UnfreezeAccount(aid, w) ==
    LET R(result) == Reply("unfreeze_account", aid, 0, 0, result)
    IN IF ~Exists(aid) THEN Raise(R("not_found"))
       ELSE IF ~accounts[aid].is_frozen THEN Raise(R("not_frozen"))
       ELSE /\ accounts' = db_freeze_account(accounts, aid, FALSE, w[1])
            /\ ledger' = IF w[1]
                         THEN record_transaction(ledger, aid, "fee", 0, "Account unfrozen",
                                  accounts[aid].balance, None, w[2])
                         ELSE ledger
            /\ last' = Called(R(IF w[1] THEN "ok" ELSE "false"),
                              <<Write("freeze_account", aid, 1, w[1])>>
                              \o (IF w[1] THEN <<LedgerWrite(aid, 1, w[2])>> ELSE <<>>))
            /\ UNCHANGED now

SetDailyWithdrawalLimit(aid, limit, w) ==
    LET R(result) == Reply("set_daily_withdrawal_limit", aid, 0, limit, result)
    IN IF ~Exists(aid) THEN Raise(R("not_found"))
       ELSE IF limit /= None /\ limit < 0 THEN Raise(R("validation"))
       ELSE /\ accounts' = db_set_daily_withdrawal_limit(accounts, aid, limit, w[1])
            /\ ledger' = IF w[1]
                         THEN record_transaction(ledger, aid, "fee", 0,
                                  "Daily withdrawal limit set",
                                  accounts[aid].balance, None, w[2])
                         ELSE ledger
            /\ last' = Called(R(IF w[1] THEN "ok" ELSE "false"),
                              <<Write("set_daily_withdrawal_limit", aid, 1, w[1])>>
                              \o (IF w[1] THEN <<LedgerWrite(aid, 1, w[2])>> ELSE <<>>))
            /\ UNCHANGED now

(* Decimal.quantize(Decimal('0.01')) under the default context rounds half to
   even.  n / d to the nearest integer, for n >= 0 and d > 0. *)
RoundHalfEven(n, d) ==
    LET q == n \div d
        r == n % d
    IN IF 2 * r > d \/ (2 * r = d /\ q % 2 = 1) THEN q + 1 ELSE q

(* balance * (interest_rate / 365) * days_passed / 100, in kopecks; the rate
   is in hundredths of a percent.  The quotient is the exact one: Decimal
   computes interest_rate / 365 to 28 digits, which is exact for the rates
   the callers here provision (multiples of 3.65%) and for their products. *)
InterestAmount(balance, interest_rate, days_passed) ==
    RoundHalfEven(balance * interest_rate * days_passed, 365 * 100 * 100)

(* Faulty variant: a call one day or more after the last accrual stamps
   last_interest_calculation even when the rounded amount is 0. *)
CalculateInterest_stamped(aid, w) ==
    LET R(amount, result) == Reply("calculate_interest", aid, 0, amount, result)
    IN IF ~Exists(aid) THEN Raise(R(0, "not_found"))
       ELSE IF ~accounts[aid].is_active THEN Raise(R(0, "inactive"))
       ELSE IF accounts[aid].interest_rate <= 0 THEN Raise(R(0, "ok"))
       ELSE LET account == accounts[aid]
                last_calculation == IF account.last_interest_calculation /= None
                                    THEN account.last_interest_calculation
                                    ELSE account.created_at
                days_passed == now - last_calculation
                interest_amount == InterestAmount(account.balance, account.interest_rate,
                                                  days_passed)
                new_balance == account.balance + interest_amount
            IN IF days_passed < 1 THEN Raise(R(0, "ok"))
               ELSE /\ accounts' = update_interest_calculation(
                                       update_account_balance(accounts, aid, new_balance, TRUE),
                                       aid, now, TRUE)
                    /\ ledger' = IF interest_amount > 0
                                 THEN record_transaction(ledger, aid, "interest",
                                          interest_amount, "Interest accrued",
                                          new_balance, None, TRUE)
                                 ELSE ledger
                    /\ last' = R(interest_amount, "ok")
                    /\ UNCHANGED now

CalculateInterest(aid, w) ==
    LET R(amount, result) == Reply("calculate_interest", aid, 0, amount, result)
    IN IF ~Exists(aid) THEN Raise(R(0, "not_found"))
       ELSE IF ~accounts[aid].is_active THEN Raise(R(0, "inactive"))
       ELSE IF accounts[aid].interest_rate <= 0 THEN Raise(R(0, "ok"))
       ELSE LET account == accounts[aid]
                last_calculation == IF account.last_interest_calculation /= None
                                    THEN account.last_interest_calculation
                                    ELSE account.created_at
                days_passed == now - last_calculation
                interest_amount == InterestAmount(account.balance, account.interest_rate,
                                                  days_passed)
                new_balance == account.balance + interest_amount
            IN IF days_passed < 1 THEN Raise(R(0, "ok"))
               ELSE IF interest_amount > 0 /\ w[1]
               THEN /\ accounts' = update_interest_calculation(
                                       update_account_balance(accounts, aid, new_balance, TRUE),
                                       aid, now, w[2])
                    /\ ledger' = record_transaction(ledger, aid, "interest", interest_amount,
                                     "Interest accrued", new_balance, None, w[3])
                    /\ last' = Called(R(interest_amount, "ok"),
                                      <<BalanceWrite(aid, 1, TRUE),
                                        Write("update_interest_calculation", aid, 1, w[2]),
                                        LedgerWrite(aid, 1, w[3])>>)
                    /\ UNCHANGED now
               ELSE IF interest_amount > 0
               THEN Raise(Called(R(0, "ok"), <<BalanceWrite(aid, 1, FALSE)>>))
               ELSE Raise(R(0, "ok"))

(* Faulty variant: the amount of the leg is not validated. *)
LegCheck_any_amount(from, leg) ==
    IF leg.to_account_id = from THEN "validation"
    ELSE IF ~Exists(leg.to_account_id) THEN "not_found"
    ELSE IF ~accounts[leg.to_account_id].is_active THEN "inactive"
    ELSE "ok"

(* The validation loop of bulk_transfer: what the leg raises, or "ok". *)
LegCheck(from, leg) ==
    IF leg.amount <= 0 THEN "validation"
    ELSE IF leg.to_account_id = from THEN "validation"
    ELSE IF ~Exists(leg.to_account_id) THEN "not_found"
    ELSE IF ~accounts[leg.to_account_id].is_active THEN "inactive"
    ELSE "ok"

RECURSIVE FirstLegError(_, _)
FirstLegError(from, legs) ==
    IF legs = <<>> THEN "ok"
    ELSE IF LegCheck(from, Head(legs)) /= "ok" THEN LegCheck(from, Head(legs))
    ELSE FirstLegError(from, Tail(legs))

(* Faulty variant: the loop ends at the first leg whose balance write
   fails. *)
RECURSIVE BulkLegs_abort(_, _, _, _, _)
BulkLegs_abort(st, from, legs, i, w) ==
    IF i > Len(legs) THEN st
    ELSE LET to == legs[i].to_account_id
             amount == legs[i].amount
             from_new_balance == st.from_balance - amount
             to_new_balance == accounts[to].balance + amount
             k == 4 * (i - 1)
             both == w[k + 1] /\ w[k + 2]
             debited == update_account_balance(st.accounts, from, from_new_balance, w[k + 1])
             credited == update_account_balance(debited, to, to_new_balance, both)
             out == record_transaction(st.ledger, from, "bulk_transfer_out", amount,
                        "Bulk transfer to", from_new_balance, to, w[k + 3])
             in == record_transaction(out, to, "bulk_transfer_in", amount,
                       "Bulk transfer from", to_new_balance, from, w[k + 4])
         IN IF both
            THEN BulkLegs_abort([accounts |-> credited,
                                 ledger |-> in,
                                 from_balance |-> from_new_balance,
                                 succeeded |-> st.succeeded \cup {i},
                                 calls |-> st.calls],
                                from, legs, i + 1, w)
            ELSE [st EXCEPT !.accounts = credited]

(* The execution loop of bulk_transfer from leg i on.  st holds the store
   (accounts, ledger), from_account.balance as the engine sees it, and the
   indexes of successful_transfers.  Each validated leg carries the
   destination account as it was read during validation. *)
RECURSIVE BulkLegs(_, _, _, _, _)
BulkLegs(st, from, legs, i, w) ==
    IF i > Len(legs) THEN st
    ELSE LET to == legs[i].to_account_id
             amount == legs[i].amount
             from_new_balance == st.from_balance - amount
             to_new_balance == accounts[to].balance + amount
             k == 4 * (i - 1)
             both == w[k + 1] /\ w[k + 2]
             debited == update_account_balance(st.accounts, from, from_new_balance, w[k + 1])
             credited == update_account_balance(debited, to, to_new_balance, both)
             out == record_transaction(st.ledger, from, "bulk_transfer_out", amount,
                        "Bulk transfer to", from_new_balance, to, w[k + 3])
             in == record_transaction(out, to, "bulk_transfer_in", amount,
                       "Bulk transfer from", to_new_balance, from, w[k + 4])
             attempts == <<BalanceWrite(from, i, w[k + 1])>>
                         \o (IF w[k + 1] THEN <<BalanceWrite(to, i, w[k + 2])>> ELSE <<>>)
                         \o (IF both
                             THEN <<LedgerWrite(from, i, w[k + 3]), LedgerWrite(to, i, w[k + 4])>>
                             ELSE <<>>)
         IN BulkLegs([accounts |-> credited,
                      ledger |-> IF both THEN in ELSE st.ledger,
                      from_balance |-> IF both THEN from_new_balance ELSE st.from_balance,
                      succeeded |-> IF both THEN st.succeeded \cup {i} ELSE st.succeeded,
                      calls |-> st.calls \o attempts],
                     from, legs, i + 1, w)

BulkTransfer(from, legs, w) ==
    LET R(result) == BulkReply(from, legs, result, {})
        total_amount == SumSeq([i \in DOMAIN legs |-> legs[i].amount])
    IN IF legs = <<>> THEN Raise(R("validation"))
       ELSE IF ~Exists(from) THEN Raise(R("not_found"))
       ELSE IF ~accounts[from].is_active THEN Raise(R("inactive"))
       ELSE IF accounts[from].is_frozen THEN Raise(R("frozen"))
       ELSE IF FirstLegError(from, legs) /= "ok" THEN Raise(R(FirstLegError(from, legs)))
       ELSE IF ~can_withdraw(accounts[from], total_amount)
            THEN Raise(R("insufficient_funds"))
       ELSE LET done == BulkLegs([accounts |-> accounts, ledger |-> ledger,
                                  from_balance |-> accounts[from].balance,
                                  succeeded |-> {}, calls |-> <<>>],
                                 from, legs, 1, w)
            IN /\ accounts' = done.accounts
               /\ ledger' = done.ledger
               /\ last' = Called(BulkReply(from, legs, "ok", done.succeeded), done.calls)
               /\ UNCHANGED now

(* The interest rate of an account is provisioned in the store directly
   (UPDATE accounts SET interest_rate = ?): the engine has no operation for
   it.  The rate is in hundredths of a percent a year. *)
SetInterestRate(aid, rate) ==
    /\ Exists(aid)
    /\ accounts' = [accounts EXCEPT ![aid].interest_rate = rate]
    /\ last' = Reply("set_interest_rate", aid, 0, rate, "ok")
    /\ UNCHANGED <<ledger, now>>

(***************************************************************************)
(* Read operations.  A read answers from the store and writes nothing; its *)
(* answer is kept in the reply.  Entries carry the time of their call, so  *)
(* ordering by timestamp is the order in which they were written.          *)
(***************************************************************************)
Take(s, n) == SubSeq(s, 1, IF n < Len(s) THEN n ELSE Len(s))

(* strftime('%Y', timestamp), strftime('%m', timestamp): the month of a day. *)
Month(t) == t \div DaysPerMonth

(* SELECT ... WHERE account_id = ? ORDER BY timestamp DESC LIMIT ? *)
get_account_transactions(led, aid, limit) ==
    Take(Reverse(SelectSeq(led, LAMBDA t : t.account_id = aid)), limit)

(* SELECT ... WHERE account_id = ? AND month = ? ORDER BY timestamp ASC *)
get_monthly_transactions(led, aid, month) ==
    SelectSeq(led, LAMBDA t : t.account_id = aid /\ Month(t.timestamp) = month)

(* The sum of the amounts of the entries of the given types. *)
Total(rows, types) ==
    LET chosen == SelectSeq(rows, LAMBDA t : t.transaction_type \in types)
    IN SumSeq([i \in DOMAIN chosen |-> chosen[i].amount])

Count(rows, types) == Len(SelectSeq(rows, LAMBDA t : t.transaction_type \in types))

RECURSIVE Largest(_, _)
Largest(rows, type) ==
    IF rows = <<>> THEN 0
    ELSE LET rest == Largest(Tail(rows), type)
         IN IF Head(rows).transaction_type = type /\ Head(rows).amount > rest
            THEN Head(rows).amount
            ELSE rest

CreditTypes == {"deposit", "transfer_in", "bulk_transfer_in", "interest"}

(* Faulty variant: the read leaves an entry in the ledger. *)
Read_logged(op, aid, arg, value) ==
    /\ last' = [Reply(op, aid, 0, arg, "ok") EXCEPT !.args = value]
    /\ ledger' = Append(ledger, Transaction(aid, "fee", 0, "Read", 0, None))
    /\ UNCHANGED <<accounts, now>>

(* A read of account aid with parameter arg answered value. *)
Read(op, aid, arg, value) ==
    /\ last' = [Reply(op, aid, 0, arg, "ok") EXCEPT !.args = value]
    /\ UNCHANGED <<accounts, ledger, now>>

GetAccount(aid) ==
    Read("get_account", aid, 0, IF Exists(aid) THEN accounts[aid] ELSE None)

GetAccountByNumber(number) ==
    Read("get_account_by_number", 0, number,
         IF get_account_by_number(number) = {} THEN None
         ELSE accounts[CHOOSE i \in get_account_by_number(number) : TRUE])

GetBalance(aid) ==
    Read("get_balance", aid, 0, IF Exists(aid) THEN accounts[aid].balance ELSE None)

GetAccountHistory(aid, limit) ==
    Read("get_account_history", aid, limit, get_account_transactions(ledger, aid, limit))

(* ORDER BY created_at DESC *)
GetAllAccounts == Read("get_all_accounts", 0, 0, Reverse(accounts))

GetAccountSummary(aid) ==
    Read("get_account_summary", aid, 0,
         IF ~Exists(aid) THEN None
         ELSE LET transactions == get_account_transactions(ledger, aid, 1000)
              IN [account |-> accounts[aid],
                  total_deposits |-> Total(transactions, {"deposit", "transfer_in"}),
                  total_withdrawals |-> Total(transactions, {"withdrawal", "transfer_out"}),
                  available_balance |-> accounts[aid].balance - accounts[aid].minimum_balance,
                  recent_transactions |-> get_account_transactions(ledger, aid, 5)])

(* The statement get_monthly_statement builds from the account and the
   entries of the month: opening_balance starts at 0.00 and is derived from
   the entries only if there are any. *)
Statement(account, transactions) ==
    LET total_deposits == Total(transactions, {"deposit"})
        total_withdrawals == Total(transactions, {"withdrawal"})
        total_transfers_in == Total(transactions, {"transfer_in", "bulk_transfer_in"})
        total_transfers_out == Total(transactions, {"transfer_out", "bulk_transfer_out"})
        total_interest == Total(transactions, {"interest"})
        total_fees == Total(transactions, {"fee"})
        closing_balance == account.balance
        net_change == (total_deposits + total_transfers_in + total_interest)
                          - (total_withdrawals + total_transfers_out + total_fees)
        opening_balance == IF transactions /= <<>> THEN closing_balance - net_change ELSE 0
    IN [account |-> account,
        opening_balance |-> opening_balance,
        closing_balance |-> closing_balance,
        total_deposits |-> total_deposits,
        total_withdrawals |-> total_withdrawals,
        total_transfers_in |-> total_transfers_in,
        total_transfers_out |-> total_transfers_out,
        total_interest |-> total_interest,
        total_fees |-> total_fees,
        net_change |-> closing_balance - opening_balance,
        transaction_count |-> Len(transactions)]

GetMonthlyStatement(aid, month) ==
    Read("get_monthly_statement", aid, month,
         IF ~Exists(aid) THEN None
         ELSE Statement(accounts[aid], get_monthly_transactions(ledger, aid, month)))

(* The entries of the trailing window: timestamp >= now - days, where every
   entry was written before the present call. *)
GetAccountStatistics(aid, days) ==
    Read("get_account_statistics", aid, days,
         IF ~Exists(aid) THEN None
         ELSE LET all_transactions == get_account_transactions(ledger, aid, 1000)
                  period_transactions ==
                      SelectSeq(all_transactions, LAMBDA t : now - t.timestamp < days)
                  recent_transactions == Take(period_transactions, 10)
              IN [account |-> accounts[aid],
                  period_days |-> days,
                  total_transactions |-> Len(period_transactions),
                  deposits |-> [count |-> Count(period_transactions, {"deposit"}),
                                total |-> Total(period_transactions, {"deposit"})],
                  withdrawals |-> [count |-> Count(period_transactions, {"withdrawal"}),
                                   total |-> Total(period_transactions, {"withdrawal"})],
                  transfers_in |->
                      [count |-> Count(period_transactions, {"transfer_in", "bulk_transfer_in"}),
                       total |-> Total(period_transactions, {"transfer_in", "bulk_transfer_in"})],
                  transfers_out |->
                      [count |-> Count(period_transactions, {"transfer_out", "bulk_transfer_out"}),
                       total |-> Total(period_transactions, {"transfer_out", "bulk_transfer_out"})],
                  interest |-> [count |-> Count(period_transactions, {"interest"}),
                                total |-> Total(period_transactions, {"interest"})],
                  fees |-> [count |-> Count(period_transactions, {"fee"}),
                            total |-> Total(period_transactions, {"fee"})],
                  largest_deposit |-> Largest(period_transactions, "deposit"),
                  largest_withdrawal |-> Largest(period_transactions, "withdrawal"),
                  balance_trend |->
                      [i \in DOMAIN recent_transactions |->
                          [date |-> recent_transactions[i].timestamp,
                           balance |-> recent_transactions[i].balance_after,
                           change |-> IF recent_transactions[i].transaction_type \in CreditTypes
                                      THEN recent_transactions[i].amount
                                      ELSE 0 - recent_transactions[i].amount]]])

(* The clock: a new calendar day begins. *)
Tick ==
    /\ now' = now + 1
    /\ last' = Reply("tick", 0, 0, 0, "ok")
    /\ UNCHANGED <<accounts, ledger>>

(***************************************************************************)
(* The engine without store failures: every operation, called with every   *)
(* argument of the input sets, on one day, while the store has room for    *)
(* what the call writes.                                                   *)
(***************************************************************************)
AllOk == [i \in 1..(4 * (MaxLegs + 1)) |-> TRUE]

(* The store answered the writes of the call with w; a call refused before
   its first write met no answer. *)
Store(w) == writes' = IF last'.result \in Errors THEN AllOk ELSE w

(* The answers of a store to a bulk transfer of n legs when the two balance
   writes of each leg may fail. *)
BalanceWrites(n) ==
    {[i \in DOMAIN AllOk |->
          IF i <= 4 * n /\ (i - 1) % 4 < 2
          THEN f[2 * ((i - 1) \div 4) + ((i - 1) % 4) + 1]
          ELSE TRUE] :
        f \in [1..(2 * n) -> BOOLEAN]}

(* The answers of a store whose first n writes of a call may each fail. *)
Writes(n) ==
    {[i \in DOMAIN AllOk |-> IF i <= n THEN f[i] ELSE TRUE] : f \in [1..n -> BOOLEAN]}

Leg == [to_account_id : AccountIds, amount : Amounts]

LegLists == UNION {[1..n -> Leg] : n \in 0..MaxLegs}

(* The generator proposes a number no account holds. *)
Fresh == <<Len(accounts) + 1>>

Init ==
    /\ accounts = <<>>
    /\ ledger = <<>>
    /\ now = 0
    /\ last = Reply("init", 0, 0, 0, "ok")
    /\ writes = AllOk

Room(n) == Len(ledger) + n <= MaxLedger

Next ==
    \/ \E name \in Names, d \in InitialDeposits, m \in MinimumBalances :
           /\ Len(accounts) < MaxAccounts
           /\ Room(1)
           /\ CreateAccount(name, d, m, Fresh, AllOk) /\ Store(AllOk)
    \/ \E aid \in AccountIds, amount \in Amounts :
           Room(1) /\ Deposit(aid, amount, AllOk) /\ Store(AllOk)
    \/ \E aid \in AccountIds, amount \in Amounts :
           Room(1) /\ Withdraw(aid, amount, AllOk) /\ Store(AllOk)
    \/ \E from, to \in AccountIds, amount \in Amounts :
           Room(2) /\ Transfer(from, to, amount, AllOk) /\ Store(AllOk)
    \/ \E from \in AccountIds, legs \in LegLists :
           Room(2 * Len(legs)) /\ BulkTransfer(from, legs, AllOk) /\ Store(AllOk)
    \/ \E aid \in AccountIds : DeactivateAccount(aid, AllOk) /\ Store(AllOk)
    \/ \E aid \in AccountIds : Room(1) /\ FreezeAccount(aid, AllOk) /\ Store(AllOk)
    \/ \E aid \in AccountIds : Room(1) /\ UnfreezeAccount(aid, AllOk) /\ Store(AllOk)
    \/ \E aid \in AccountIds, limit \in Limits :
           Room(1) /\ SetDailyWithdrawalLimit(aid, limit, AllOk) /\ Store(AllOk)
    \/ \E aid \in AccountIds : Room(1) /\ CalculateInterest(aid, AllOk) /\ Store(AllOk)

Spec == Init /\ [][Next]_vars

(***************************************************************************)
(* Money movements only: accounts are opened, paid into, drawn from and    *)
(* transfer to one another.                                                *)
(***************************************************************************)
MoneyRoom(n) == Len(ledger) + n <= MaxMoneyLedger

NextMoney ==
    \/ \E name \in Names, d \in InitialDeposits, m \in MinimumBalances :
           /\ Len(accounts) < MaxAccounts
           /\ MoneyRoom(1)
           /\ CreateAccount(name, d, m, Fresh, AllOk) /\ Store(AllOk)
    \/ \E aid \in AccountIds, amount \in Amounts :
           MoneyRoom(1) /\ Deposit(aid, amount, AllOk) /\ Store(AllOk)
    \/ \E aid \in AccountIds, amount \in Amounts :
           MoneyRoom(1) /\ Withdraw(aid, amount, AllOk) /\ Store(AllOk)
    \/ \E from, to \in AccountIds, amount \in Amounts :
           MoneyRoom(2) /\ Transfer(from, to, amount, AllOk) /\ Store(AllOk)

SpecMoney == Init /\ [][NextMoney]_vars

(***************************************************************************)
(* Debits over several days: funded accounts, the daily limit, the three   *)
(* debiting operations and the clock.                                      *)
(***************************************************************************)
DayRoom(n) == Len(ledger) + n <= MaxDayLedger

NextDay ==
    \/ /\ Len(accounts) < MaxAccounts
       /\ DayRoom(1)
       /\ CreateAccount(<<"a">>, 40, 0, Fresh, AllOk) /\ Store(AllOk)
    \/ \E aid \in AccountIds, limit \in Limits :
           DayRoom(1) /\ SetDailyWithdrawalLimit(aid, limit, AllOk) /\ Store(AllOk)
    \/ \E aid \in AccountIds, amount \in Amounts :
           DayRoom(1) /\ Withdraw(aid, amount, AllOk) /\ Store(AllOk)
    \/ \E from, to \in AccountIds, amount \in Amounts :
           DayRoom(2) /\ Transfer(from, to, amount, AllOk) /\ Store(AllOk)
    \/ \E from, to \in AccountIds, amount \in Amounts :
           /\ DayRoom(2)
           /\ BulkTransfer(from, <<[to_account_id |-> to, amount |-> amount]>>, AllOk) /\ Store(AllOk)
    \/ now < MaxTime /\ Tick /\ Store(AllOk)

SpecDay == Init /\ [][NextDay]_vars

(***************************************************************************)
(* Freezing: one kind of account, frozen and unfrozen between deposits and *)
(* withdrawals.                                                            *)
(***************************************************************************)
FreezeRoom(n) == Len(ledger) + n <= MaxFreezeLedger

NextFreeze ==
    \/ /\ Len(accounts) < MaxAccounts
       /\ FreezeRoom(1)
       /\ CreateAccount(<<"a">>, 40, 10, Fresh, AllOk) /\ Store(AllOk)
    \/ \E aid \in AccountIds : FreezeRoom(1) /\ FreezeAccount(aid, AllOk) /\ Store(AllOk)
    \/ \E aid \in AccountIds : FreezeRoom(1) /\ UnfreezeAccount(aid, AllOk) /\ Store(AllOk)
    \/ \E aid \in AccountIds, amount \in Amounts :
           FreezeRoom(1) /\ Deposit(aid, amount, AllOk) /\ Store(AllOk)
    \/ \E aid \in AccountIds, amount \in Amounts :
           FreezeRoom(1) /\ Withdraw(aid, amount, AllOk) /\ Store(AllOk)

SpecFreeze == Init /\ [][NextFreeze]_vars

(***************************************************************************)
(* Bulk transfers between accounts that were funded or left empty.         *)
(***************************************************************************)
BulkRoom(n) == Len(ledger) + n <= MaxBulkLedger

NextBulk ==
    \/ \E d \in InitialDeposits, m \in MinimumBalances :
           /\ Len(accounts) < MaxAccounts
           /\ BulkRoom(1)
           /\ CreateAccount(<<"a">>, d, m, Fresh, AllOk) /\ Store(AllOk)
    \/ \E from \in AccountIds, legs \in LegLists :
           BulkRoom(2 * Len(legs)) /\ BulkTransfer(from, legs, AllOk) /\ Store(AllOk)

SpecBulk == Init /\ [][NextBulk]_vars

(***************************************************************************)
(* Debits from accounts that are frozen and unfrozen: withdrawals,         *)
(* transfers and bulk transfers between funded accounts.                   *)
(***************************************************************************)
FrozenRoom(n) == Len(ledger) + n <= MaxFrozenLedger

NextFrozen ==
    \/ /\ Len(accounts) < MaxAccounts
       /\ FrozenRoom(1)
       /\ CreateAccount(<<"a">>, 20, 10, Fresh, AllOk) /\ Store(AllOk)
    \/ \E aid \in AccountIds : FrozenRoom(1) /\ FreezeAccount(aid, AllOk) /\ Store(AllOk)
    \/ \E aid \in AccountIds : FrozenRoom(1) /\ UnfreezeAccount(aid, AllOk) /\ Store(AllOk)
    \/ \E aid \in AccountIds, amount \in Amounts :
           FrozenRoom(1) /\ Withdraw(aid, amount, AllOk) /\ Store(AllOk)
    \/ \E from, to \in AccountIds, amount \in Amounts :
           FrozenRoom(2) /\ Transfer(from, to, amount, AllOk) /\ Store(AllOk)
    \/ \E from, to \in AccountIds, amount \in Amounts :
           /\ FrozenRoom(2)
           /\ BulkTransfer(from, <<[to_account_id |-> to, amount |-> amount]>>, AllOk)
           /\ Store(AllOk)

SpecFrozen == Init /\ [][NextFrozen]_vars

(***************************************************************************)
(* Store failures: every write of a call to pay in, draw or transfer may   *)
(* fail at the store.  A balance written without its                       *)
(* ledger entry is not held back by the room of the ledger, so balances    *)
(* are kept below a cap.                                                   *)
(***************************************************************************)
FailRoom(n) == Len(ledger) + n <= MaxFailLedger

FailAmounts == {0, 10}

FailDeposits == {0, 20}

NextFail ==
    \/ \E d \in FailDeposits :
           /\ Len(accounts) < MaxAccounts
           /\ FailRoom(1)
           /\ CreateAccount(<<"a">>, d, 0, Fresh, AllOk) /\ Store(AllOk)
    \/ \E aid \in AccountIds, amount \in FailAmounts, w \in Writes(2) :
           /\ FailRoom(1)
           /\ Exists(aid) => accounts[aid].balance + amount <= MaxFailBalance
           /\ Deposit(aid, amount, w) /\ Store(w)
    \/ \E aid \in AccountIds, amount \in FailAmounts, w \in Writes(2) :
           FailRoom(1) /\ Withdraw(aid, amount, w) /\ Store(w)
    \/ \E from, to \in AccountIds, amount \in FailAmounts, w \in Writes(4) :
           /\ FailRoom(2)
           /\ Exists(to) => accounts[to].balance + amount <= MaxFailBalance
           /\ Transfer(from, to, amount, w) /\ Store(w)

SpecFail == Init /\ [][NextFail]_vars

(***************************************************************************)
(* Bulk transfers at a store whose balance writes may fail, between        *)
(* accounts that may have been frozen or deactivated.                      *)
(***************************************************************************)
BulkFailRoom(n) == Len(ledger) + n <= MaxBulkFailLedger

NextBulkFail ==
    \/ \E d \in FailDeposits :
           /\ Len(accounts) < MaxAccounts
           /\ BulkFailRoom(1)
           /\ CreateAccount(<<"a">>, d, 0, Fresh, AllOk) /\ Store(AllOk)
    \/ \E aid \in AccountIds : BulkFailRoom(1) /\ FreezeAccount(aid, AllOk) /\ Store(AllOk)
    \/ \E aid \in AccountIds : DeactivateAccount(aid, AllOk) /\ Store(AllOk)
    \/ \E from \in AccountIds, legs \in LegLists :
           /\ BulkFailRoom(2 * Len(legs))
           /\ \E w \in IF FirstLegError(from, legs) = "ok"
                       THEN BalanceWrites(Len(legs))
                       ELSE {AllOk} :
                  BulkTransfer(from, legs, w) /\ Store(w)

SpecBulkFail == Init /\ [][NextBulkFail]_vars

(***************************************************************************)
(* Account creation with every argument of the input sets; accounts with   *)
(* no money may be closed.                                                 *)
(***************************************************************************)
NextCreate ==
    \/ \E name \in Names, d \in InitialDeposits, m \in MinimumBalances :
           /\ Len(accounts) < MaxAccounts
           /\ CreateAccount(name, d, m, Fresh, AllOk) /\ Store(AllOk)
    \/ \E aid \in AccountIds : DeactivateAccount(aid, AllOk) /\ Store(AllOk)

SpecCreate == Init /\ [][NextCreate]_vars

(***************************************************************************)
(* Account creation when the generator may propose numbers that are        *)
(* already taken: each call is given the numbers the generator proposes,   *)
(* in order.  A call whose proposals are all taken is still in its loop    *)
(* and has not returned.                                                   *)
(***************************************************************************)
Numbers == 1..MaxNumber

CandidateLists == UNION {[1..n -> Numbers] : n \in 1..MaxTries}

NextNumber ==
    \/ \E d \in FailDeposits, candidates \in CandidateLists :
           /\ Len(accounts) < MaxNumberAccounts
           /\ CreateAccount(<<"a">>, d, 0, candidates, AllOk) /\ Store(AllOk)
    \/ \E aid \in 1..MaxNumberAccounts : DeactivateAccount(aid, AllOk) /\ Store(AllOk)

SpecNumber == Init /\ [][NextNumber]_vars

(***************************************************************************)
(* The life of an account: opened, used, frozen, emptied and closed, and   *)
(* every operation tried on it afterwards.                                 *)
(***************************************************************************)
LifeRoom(n) == Len(ledger) + n <= MaxLifeLedger

LifeAmounts == {10}

LifeDeposits == {0, 10}

NextLife ==
    \/ \E d \in LifeDeposits :
           /\ Len(accounts) < MaxAccounts
           /\ LifeRoom(1)
           /\ CreateAccount(<<"a">>, d, 0, Fresh, AllOk) /\ Store(AllOk)
    \/ \E aid \in AccountIds, amount \in LifeAmounts :
           LifeRoom(1) /\ Deposit(aid, amount, AllOk) /\ Store(AllOk)
    \/ \E aid \in AccountIds, amount \in LifeAmounts :
           LifeRoom(1) /\ Withdraw(aid, amount, AllOk) /\ Store(AllOk)
    \/ \E from, to \in AccountIds, amount \in LifeAmounts :
           LifeRoom(2) /\ Transfer(from, to, amount, AllOk) /\ Store(AllOk)
    \/ \E from, to \in AccountIds, amount \in LifeAmounts :
           /\ LifeRoom(2)
           /\ BulkTransfer(from, <<[to_account_id |-> to, amount |-> amount]>>, AllOk)
           /\ Store(AllOk)
    \/ \E aid \in AccountIds : DeactivateAccount(aid, AllOk) /\ Store(AllOk)
    \/ \E aid \in AccountIds : LifeRoom(1) /\ FreezeAccount(aid, AllOk) /\ Store(AllOk)
    \/ \E aid \in AccountIds : LifeRoom(1) /\ UnfreezeAccount(aid, AllOk) /\ Store(AllOk)
    \/ \E aid \in AccountIds : LifeRoom(1) /\ CalculateInterest(aid, AllOk) /\ Store(AllOk)

SpecLife == Init /\ [][NextLife]_vars

(***************************************************************************)
(* Interest: accounts with a provisioned rate, accrued over several days.  *)
(***************************************************************************)
InterestRoom(n) == Len(ledger) + n <= MaxInterestLedger

InterestRates == {0, 36500}

InterestDeposits == {0, 20, 1000}

NextInterest ==
    \/ \E d \in InterestDeposits :
           /\ Len(accounts) < MaxAccounts
           /\ InterestRoom(1)
           /\ CreateAccount(<<"a">>, d, 0, Fresh, AllOk) /\ Store(AllOk)
    \/ \E aid \in AccountIds, rate \in InterestRates :
           SetInterestRate(aid, rate) /\ Store(AllOk)
    \/ \E aid \in AccountIds :
           InterestRoom(1) /\ CalculateInterest(aid, AllOk) /\ Store(AllOk)
    \/ \E aid \in AccountIds : DeactivateAccount(aid, AllOk) /\ Store(AllOk)
    \/ now < MaxInterestTime /\ Tick /\ Store(AllOk)

SpecInterest == Init /\ [][NextInterest]_vars

(***************************************************************************)
(* Reads between mutations: accounts are opened, paid into, drawn from and *)
(* transfer to one another over two months, and every read operation is    *)
(* called in between.                                                      *)
(***************************************************************************)
ReadRoom(n) == Len(ledger) + n <= MaxReadLedger

ReadAmounts == {10}

ReadDeposits == {0, 20}

Months == 0..(MaxReadTime \div DaysPerMonth)

HistoryLimits == {1, 10}

PeriodDays == {0, 30}

ReadOps ==
    {"get_account", "get_account_by_number", "get_balance", "get_account_history",
     "get_all_accounts", "get_account_summary", "get_monthly_statement",
     "get_account_statistics"}

NextRead ==
    \/ \E d \in ReadDeposits :
           /\ Len(accounts) < MaxAccounts
           /\ ReadRoom(1)
           /\ CreateAccount(<<"a">>, d, 0, Fresh, AllOk) /\ Store(AllOk)
    \/ \E aid \in AccountIds, amount \in ReadAmounts :
           ReadRoom(1) /\ Deposit(aid, amount, AllOk) /\ Store(AllOk)
    \/ \E aid \in AccountIds, amount \in ReadAmounts :
           ReadRoom(1) /\ Withdraw(aid, amount, AllOk) /\ Store(AllOk)
    \/ \E from, to \in AccountIds, amount \in ReadAmounts :
           ReadRoom(2) /\ Transfer(from, to, amount, AllOk) /\ Store(AllOk)
    \/ now < MaxReadTime /\ Tick /\ Store(AllOk)
    \/ \E aid \in AccountIds : GetAccount(aid) /\ Store(AllOk)
    \/ \E number \in AccountIds : GetAccountByNumber(number) /\ Store(AllOk)
    \/ \E aid \in AccountIds : GetBalance(aid) /\ Store(AllOk)
    \/ \E aid \in AccountIds, limit \in HistoryLimits :
           GetAccountHistory(aid, limit) /\ Store(AllOk)
    \/ GetAllAccounts /\ Store(AllOk)
    \/ \E aid \in AccountIds : GetAccountSummary(aid) /\ Store(AllOk)
    \/ \E aid \in AccountIds, month \in Months :
           GetMonthlyStatement(aid, month) /\ Store(AllOk)
    \/ \E aid \in AccountIds, days \in PeriodDays :
           GetAccountStatistics(aid, days) /\ Store(AllOk)

SpecRead == Init /\ [][NextRead]_vars

(***************************************************************************)
(* Every mutating operation at a store whose balance and flag writes may   *)
(* fail, so that calls succeed, are refused, or report failure.  The       *)
(* ledger write of a call is taken to succeed here: its failure is the     *)
(* subject of LedgerFailureSurfaced.                                       *)
(***************************************************************************)
EntryRoom(n) == Len(ledger) + n <= MaxEntryLedger

EntryAmounts == {10}

EntryDeposits == {0, 20}

EntryLimits == {-10, 10}

EntryRates == {182500}

EntryIds == 1..MaxAccounts

NextEntry ==
    \/ \E d \in EntryDeposits :
           /\ Len(accounts) < MaxAccounts
           /\ EntryRoom(1)
           /\ CreateAccount(<<"a">>, d, 0, Fresh, AllOk) /\ Store(AllOk)
    \/ \E aid \in EntryIds, amount \in EntryAmounts, w \in Writes(1) :
           EntryRoom(1) /\ Deposit(aid, amount, w) /\ Store(w)
    \/ \E aid \in EntryIds, amount \in EntryAmounts, w \in Writes(1) :
           EntryRoom(1) /\ Withdraw(aid, amount, w) /\ Store(w)
    \/ \E from, to \in EntryIds, amount \in EntryAmounts, w \in Writes(2) :
           EntryRoom(2) /\ Transfer(from, to, amount, w) /\ Store(w)
    \/ \E from, to \in EntryIds, amount \in EntryAmounts, w \in BalanceWrites(1) :
           /\ EntryRoom(2)
           /\ BulkTransfer(from, <<[to_account_id |-> to, amount |-> amount]>>, w)
           /\ Store(w)
    \/ \E aid \in EntryIds, w \in Writes(1) : DeactivateAccount(aid, w) /\ Store(w)
    \/ \E aid \in EntryIds, w \in Writes(1) :
           EntryRoom(1) /\ FreezeAccount(aid, w) /\ Store(w)
    \/ \E aid \in EntryIds, w \in Writes(1) :
           EntryRoom(1) /\ UnfreezeAccount(aid, w) /\ Store(w)
    \/ \E aid \in EntryIds, limit \in EntryLimits, w \in Writes(1) :
           EntryRoom(1) /\ SetDailyWithdrawalLimit(aid, limit, w) /\ Store(w)
    \/ \E aid \in EntryIds, rate \in EntryRates :
           SetInterestRate(aid, rate) /\ Store(AllOk)
    \/ \E aid \in EntryIds, w \in Writes(2) :
           EntryRoom(1) /\ CalculateInterest(aid, w) /\ Store(w)
    \/ now < MaxEntryTime /\ Tick /\ Store(AllOk)

SpecEntry == Init /\ [][NextEntry]_vars

(***************************************************************************)
(* The books: every mutating operation at a store that never fails, on     *)
(* accounts with and without a minimum balance, with bulk requests that    *)
(* may name an account twice, so that the ledger can be set against the    *)
(* balances.  A call begins while the ledger has room for what it writes   *)
(* first; a bulk request then runs through all its legs.                   *)
(***************************************************************************)
AuditRoom(n) == Len(ledger) + n <= MaxAuditLedger

AuditAmounts == {10}

AuditDeposits == {0, 20}

AuditMinimums == {0, 10}

AuditLimits == {10}

AuditRates == {182500}

AuditIds == 1..MaxAccounts

AuditLegLists ==
    UNION {[1..n -> [to_account_id : AuditIds, amount : AuditAmounts]] : n \in 1..MaxLegs}

NextAudit ==
    \/ \E d \in AuditDeposits, minimum \in AuditMinimums :
           /\ Len(accounts) < MaxAccounts
           /\ AuditRoom(1)
           /\ CreateAccount(<<"a">>, d, minimum, Fresh, AllOk) /\ Store(AllOk)
    \/ \E aid \in AuditIds, amount \in AuditAmounts :
           AuditRoom(1) /\ Deposit(aid, amount, AllOk) /\ Store(AllOk)
    \/ \E aid \in AuditIds, amount \in AuditAmounts :
           AuditRoom(1) /\ Withdraw(aid, amount, AllOk) /\ Store(AllOk)
    \/ \E from, to \in AuditIds, amount \in AuditAmounts :
           AuditRoom(2) /\ Transfer(from, to, amount, AllOk) /\ Store(AllOk)
    \/ \E from \in AuditIds, legs \in AuditLegLists :
           AuditRoom(2) /\ BulkTransfer(from, legs, AllOk) /\ Store(AllOk)
    \/ \E aid \in AuditIds : AuditRoom(1) /\ DeactivateAccount(aid, AllOk) /\ Store(AllOk)
    \/ \E aid \in AuditIds : AuditRoom(1) /\ FreezeAccount(aid, AllOk) /\ Store(AllOk)
    \/ \E aid \in AuditIds : AuditRoom(1) /\ UnfreezeAccount(aid, AllOk) /\ Store(AllOk)
    \/ \E aid \in AuditIds, limit \in AuditLimits :
           AuditRoom(1) /\ SetDailyWithdrawalLimit(aid, limit, AllOk) /\ Store(AllOk)
    \/ \E aid \in AuditIds, rate \in AuditRates :
           AuditRoom(1) /\ SetInterestRate(aid, rate) /\ Store(AllOk)
    \/ \E aid \in AuditIds :
           AuditRoom(1) /\ CalculateInterest(aid, AllOk) /\ Store(AllOk)
    \/ AuditRoom(1) /\ now < MaxAuditTime /\ Tick /\ Store(AllOk)

SpecAudit == Init /\ [][NextAudit]_vars

(***************************************************************************)
(* Accrual of small amounts: balances whose interest of a day rounds to    *)
(* nothing or lies halfway between two kopecks, at a negative or a         *)
(* positive rate.                                                          *)
(***************************************************************************)
AccrualRoom(n) == Len(ledger) + n <= MaxAccrualLedger

AccrualDeposits == {0, 30, 50}

AccrualRates == {-100, 36500}

NextAccrual ==
    \/ \E d \in AccrualDeposits :
           /\ Len(accounts) < MaxAccounts
           /\ AccrualRoom(1)
           /\ CreateAccount(<<"a">>, d, 0, Fresh, AllOk) /\ Store(AllOk)
    \/ \E aid \in AccountIds, rate \in AccrualRates :
           SetInterestRate(aid, rate) /\ Store(AllOk)
    \/ \E aid \in AccountIds :
           AccrualRoom(1) /\ CalculateInterest(aid, AllOk) /\ Store(AllOk)
    \/ now < MaxAccrualTime /\ Tick /\ Store(AllOk)

SpecAccrual == Init /\ [][NextAccrual]_vars

(***************************************************************************)
(* Properties.                                                             *)
(***************************************************************************)
TotalBalance(accs) == SumSeq([i \in DOMAIN accs |-> accs[i].balance])

(* The ledger grew by exactly the entries of added, in that order. *)
Appended(added) == ledger' = ledger \o added

(* C1: without store failures, after any sequence of engine calls every
   account has balance >= minimum_balance >= 0. *)
BalanceFloor ==
    \A aid \in DOMAIN accounts :
        /\ accounts[aid].balance >= accounts[aid].minimum_balance
        /\ accounts[aid].minimum_balance >= 0

(* A transfer has taken its source down to a positive minimum balance. *)
BalanceFloorReached ==
    /\ last.op = "transfer"
    /\ last.result = "ok"
    /\ accounts[last.aid].minimum_balance > 0
    /\ accounts[last.aid].balance = accounts[last.aid].minimum_balance

(* C2: a successful transfer debits the source by the amount, credits the
   destination by the same amount, leaves the sum of the two balances as it
   was, and appends exactly two entries: a transfer_out on the source naming
   the destination and a transfer_in on the destination naming the source,
   each with the amount and its own account's new balance. *)
TransferConserves ==
    [][(last'.op = "transfer" /\ last'.result = "ok") =>
        LET from == last'.aid
            to == last'.to
            amount == last'.amount
        IN /\ accounts'[from].balance = accounts[from].balance - amount
           /\ accounts'[to].balance = accounts[to].balance + amount
           /\ accounts'[from].balance + accounts'[to].balance
                  = accounts[from].balance + accounts[to].balance
           /\ Appended(<<[account_id |-> from,
                          transaction_type |-> "transfer_out",
                          amount |-> amount,
                          description |-> "Transfer to",
                          timestamp |-> now,
                          balance_after |-> accounts'[from].balance,
                          related_account_id |-> to],
                         [account_id |-> to,
                          transaction_type |-> "transfer_in",
                          amount |-> amount,
                          description |-> "Transfer from",
                          timestamp |-> now,
                          balance_after |-> accounts'[to].balance,
                          related_account_id |-> from]>>)]_vars

(* A transfer went through. *)
TransferDone ==
    /\ last.op = "transfer"
    /\ last.result = "ok"
    /\ last.amount > 0

(* What a call adds to the sum of all balances: the initial deposit of a
   created account, the amount of a successful deposit, minus the amount of
   a successful withdrawal, and nothing otherwise. *)
Delta(reply) ==
    IF reply.result /= "ok" THEN 0
    ELSE IF reply.op \in {"create_account", "deposit"} THEN reply.amount
    ELSE IF reply.op = "withdraw" THEN -reply.amount
    ELSE 0

(* C3: over create_account, deposit, withdraw and transfer calls the sum of
   all balances is the initial deposits plus the successful deposits minus
   the successful withdrawals: each such call changes the sum by exactly its
   own contribution, and a transfer by nothing. *)
GlobalConservation ==
    [][last'.op \in {"create_account", "deposit", "withdraw", "transfer"} =>
        TotalBalance(accounts') = TotalBalance(accounts) + Delta(last')]_vars

(* A transfer moved money that a deposit call had brought in. *)
DepositedThenTransferred ==
    /\ last.op = "transfer"
    /\ last.result = "ok"
    /\ \E i \in DOMAIN ledger : ledger[i].description = "Deposit"

(* C5: a successful deposit of amount > 0 into an active account sets the
   balance to the old balance plus the amount and appends exactly one
   deposit entry with that amount and balance_after the new balance. *)
DepositEffect ==
    [][(last'.op = "deposit" /\ last'.result = "ok") =>
        LET aid == last'.aid
            amount == last'.amount
        IN /\ amount > 0
           /\ accounts[aid].is_active
           /\ accounts'[aid].balance = accounts[aid].balance + amount
           /\ Appended(<<[account_id |-> aid,
                          transaction_type |-> "deposit",
                          amount |-> amount,
                          description |-> "Deposit",
                          timestamp |-> now,
                          balance_after |-> accounts[aid].balance + amount,
                          related_account_id |-> None]>>)]_vars

(* A deposit went into an account that already held money. *)
DepositDone ==
    /\ last.op = "deposit"
    /\ last.result = "ok"
    /\ accounts[last.aid].balance > last.amount

(* C6: on an active, unfrozen account without a daily limit, a withdrawal of
   amount > 0 succeeds exactly when balance - amount >= minimum_balance, and
   then leaves balance - amount; otherwise it is refused for insufficient
   funds.  So withdrawing balance - minimum_balance succeeds and leaves the
   minimum, and one kopeck more is refused. *)
WithdrawFloor ==
    [][(/\ last'.op = "withdraw"
        /\ last'.amount > 0
        /\ Exists(last'.aid)
        /\ accounts[last'.aid].is_active
        /\ ~accounts[last'.aid].is_frozen
        /\ accounts[last'.aid].daily_withdrawal_limit = None) =>
        LET account == accounts[last'.aid]
            amount == last'.amount
        IN IF account.balance - amount >= account.minimum_balance
           THEN /\ last'.result = "ok"
                /\ accounts'[last'.aid].balance = account.balance - amount
           ELSE /\ last'.result = "insufficient_funds"
                /\ accounts' = accounts]_vars

(* A withdrawal of everything above a positive minimum went through. *)
WithdrawnToFloor ==
    /\ last.op = "withdraw"
    /\ last.result = "ok"
    /\ accounts[last.aid].daily_withdrawal_limit = None
    /\ accounts[last.aid].minimum_balance > 0
    /\ accounts[last.aid].balance = accounts[last.aid].minimum_balance

(* C7: a call the engine refuses (validation, unknown account, inactive,
   frozen, insufficient funds, daily limit, or a refused bulk request)
   changes no balance, no flag and no ledger entry. *)
RejectionChangesNothing ==
    [][last'.result \in Errors => (accounts' = accounts /\ ledger' = ledger)]_vars

(* A withdrawal was refused over the daily limit on an account with history. *)
RejectedWithHistory ==
    /\ last.op = "withdraw"
    /\ last.result = "daily_limit"
    /\ \E i \in DOMAIN ledger : ledger[i].account_id = last.aid

(* The amounts of the legs of a bulk request that name the account to. *)
LegAmountsTo(legs, to) ==
    LET named == SelectSeq(legs, LAMBDA leg : leg.to_account_id = to)
    IN [i \in DOMAIN named |-> named[i].amount]

(* C4: a bulk transfer from an active, unfrozen source that can afford the
   total, whose legs each carry a positive amount for an existing active
   account other than the source (possibly the same one several times),
   completes every leg: the source loses the total, every destination gains
   the sum of the legs naming it, the sum of all balances is unchanged, and
   the report counts every leg as successful. *)
BulkCompletes ==
    [][(/\ last'.op = "bulk_transfer"
        /\ last'.legs /= <<>>
        /\ Exists(last'.aid)
        /\ accounts[last'.aid].is_active
        /\ ~accounts[last'.aid].is_frozen
        /\ \A i \in DOMAIN last'.legs : LegCheck(last'.aid, last'.legs[i]) = "ok"
        /\ accounts[last'.aid].balance - last'.amount
               >= accounts[last'.aid].minimum_balance) =>
        LET from == last'.aid
            legs == last'.legs
        IN /\ last'.result = "ok"
           /\ last'.succeeded = DOMAIN legs
           /\ accounts'[from].balance = accounts[from].balance - last'.amount
           /\ \A to \in DOMAIN accounts \ {from} :
                  accounts'[to].balance
                      = accounts[to].balance + SumSeq(LegAmountsTo(legs, to))
           /\ TotalBalance(accounts') = TotalBalance(accounts)]_vars

(* What the account aid was debited on the day, added exactly. *)
DayDebits(aid, day) == SumSeq(DayDebitAmounts(ledger, aid, day))

(* C8: with a daily limit L on the account, a withdrawal that passes every
   other check is refused over the daily limit exactly when the day's debits
   so far plus the amount exceed L, and a refused withdrawal adds nothing to
   the day's debits. *)
WithdrawDailyLimit ==
    [][(/\ last'.op = "withdraw"
        /\ last'.amount > 0
        /\ Exists(last'.aid)
        /\ accounts[last'.aid].is_active
        /\ can_withdraw(accounts[last'.aid], last'.amount)
        /\ accounts[last'.aid].daily_withdrawal_limit /= None) =>
        LET aid == last'.aid
            today_total == DayDebits(aid, Date(now))
        IN /\ last'.result = "daily_limit"
                  <=> today_total + last'.amount > accounts[aid].daily_withdrawal_limit
           /\ last'.result = "daily_limit" => ledger' = ledger]_vars

(* The positions of the ledger at which a daily limit was set on aid. *)
LimitSet(aid) ==
    {i \in DOMAIN ledger : /\ ledger[i].account_id = aid
                           /\ ledger[i].description = "Daily withdrawal limit set"}

(* The positions of the ledger at which aid was debited on the day. *)
DebitedAt(aid, day) ==
    {i \in DOMAIN ledger : /\ ledger[i].account_id = aid
                           /\ ledger[i].transaction_type \in DebitTypes
                           /\ Date(ledger[i].timestamp) = day}

(* C9: when the daily limit L of an account was set before any debit of the
   day and not set again, the day's debits of the account (withdrawals,
   transfers out, bulk transfers out) never add up to more than L. *)
DailyCap ==
    \A aid \in DOMAIN accounts :
        (/\ accounts[aid].daily_withdrawal_limit /= None
         /\ \A i \in DebitedAt(aid, Date(now)) : \A k \in LimitSet(aid) : k < i) =>
        DayDebits(aid, Date(now)) <= accounts[aid].daily_withdrawal_limit

(* Whether the last freeze or unfreeze recorded for aid is the given one. *)
LastFreezeEntry(aid, description) ==
    LET at == {i \in DOMAIN ledger :
                  /\ ledger[i].account_id = aid
                  /\ ledger[i].description \in {"Account frozen", "Account unfrozen"}}
    IN \E i \in at : /\ ledger[i].description = description
                     /\ \A j \in at : j <= i

(* C10: once an active account has been frozen, a withdrawal from it is
   refused as frozen and changes nothing, while a deposit still goes through
   and raises the balance by its amount; once it has been unfrozen again, a
   withdrawal that respects the minimum balance goes through. *)
FreezeGating ==
    [][/\ (/\ last'.op = "withdraw"
           /\ last'.amount > 0
           /\ Exists(last'.aid)
           /\ LastFreezeEntry(last'.aid, "Account frozen")) =>
              (last'.result = "frozen" /\ accounts' = accounts /\ ledger' = ledger)
       /\ (/\ last'.op = "deposit"
           /\ last'.amount > 0
           /\ Exists(last'.aid)
           /\ LastFreezeEntry(last'.aid, "Account frozen")) =>
              /\ last'.result = "ok"
              /\ accounts'[last'.aid].balance
                     = accounts[last'.aid].balance + last'.amount
       /\ (/\ last'.op = "withdraw"
           /\ last'.amount > 0
           /\ Exists(last'.aid)
           /\ LastFreezeEntry(last'.aid, "Account unfrozen")
           /\ accounts[last'.aid].balance - last'.amount
                  >= accounts[last'.aid].minimum_balance) =>
              /\ last'.result = "ok"
              /\ accounts'[last'.aid].balance
                     = accounts[last'.aid].balance - last'.amount]_vars

(* An account was frozen, received a deposit while frozen, was unfrozen and
   then paid out a withdrawal. *)
FreezeCycle ==
    /\ last.op = "withdraw"
    /\ last.result = "ok"
    /\ \E i \in DOMAIN ledger :
           /\ i + 3 = Len(ledger)
           /\ \A j \in i..(i + 3) : ledger[j].account_id = last.aid
           /\ ledger[i].description = "Account frozen"
           /\ ledger[i + 1].description = "Deposit"
           /\ ledger[i + 2].description = "Account unfrozen"
           /\ ledger[i + 3].description = "Withdrawal"

(* C11: while an account is frozen no withdrawal from it, no transfer out
   of it and no bulk transfer out of it succeeds, and no call lowers its
   balance. *)
FrozenGatesDebits ==
    [][\A aid \in DOMAIN accounts :
           accounts[aid].is_frozen =>
               /\ accounts'[aid].balance >= accounts[aid].balance
               /\ (/\ last'.op \in {"withdraw", "transfer", "bulk_transfer"}
                   /\ last'.aid = aid) => last'.result \in Errors]_vars

(* A bulk transfer that a frozen source could have paid was refused. *)
FrozenBulkRefused ==
    /\ last.op = "bulk_transfer"
    /\ last.result = "frozen"
    /\ accounts[last.aid].is_frozen
    /\ last.amount > 0
    /\ accounts[last.aid].balance - last.amount >= accounts[last.aid].minimum_balance

(* A transfer of a positive amount between two distinct active accounts out
   of a frozen source that holds the amount above its minimum. *)
TransferFromFrozen ==
    /\ last'.op = "transfer"
    /\ last'.amount > 0
    /\ last'.aid /= last'.to
    /\ Exists(last'.aid)
    /\ Exists(last'.to)
    /\ accounts[last'.aid].is_active
    /\ accounts[last'.to].is_active
    /\ accounts[last'.aid].is_frozen
    /\ accounts[last'.aid].balance - last'.amount >= accounts[last'.aid].minimum_balance

(* C12 as stated: a transfer out of an active but frozen source that holds
   the amount above its minimum succeeds and moves the amount. *)
FrozenTransferSucceeds ==
    [][TransferFromFrozen =>
        /\ last'.result = "ok"
        /\ accounts'[last'.aid].balance = accounts[last'.aid].balance - last'.amount
        /\ accounts'[last'.to].balance = accounts[last'.to].balance + last'.amount]_vars

(* C12 as the code has it: can_withdraw is false for a frozen account, so a
   transfer out of an active but frozen source is refused for insufficient
   funds whatever it holds, and changes nothing. *)
FrozenTransferRefused ==
    [][TransferFromFrozen =>
        /\ last'.result = "insufficient_funds"
        /\ accounts' = accounts
        /\ ledger' = ledger]_vars

(* A transfer that a frozen source could have paid was refused. *)
FrozenTransferWasRefused ==
    /\ last.op = "transfer"
    /\ last.result = "insufficient_funds"
    /\ accounts[last.aid].is_frozen
    /\ accounts[last.to].is_active
    /\ accounts[last.aid].balance - last.amount >= accounts[last.aid].minimum_balance

(* C13: when either balance write of a transfer fails at the store, the
   transfer returns False without raising and writes no ledger entry for
   either account. *)
TransferWriteFailure ==
    [][(/\ last'.op = "transfer"
        /\ last'.result \notin Errors
        /\ ~(writes'[1] /\ writes'[2])) =>
        /\ last'.result = "false"
        /\ ledger' = ledger]_vars

(* A transfer debited its source and then failed to credit the destination. *)
TransferCreditFailed ==
    /\ last.op = "transfer"
    /\ last.result = "false"
    /\ writes[1]
    /\ ~writes[2]

(* C14: when the balance write of a deposit or a withdrawal fails at the
   store, the call returns False without raising, writes no ledger entry and
   leaves the stored balance as it was. *)
BalanceWriteFailure ==
    [][(/\ last'.op \in {"deposit", "withdraw"}
        /\ last'.result \notin Errors
        /\ ~writes'[1]) =>
        /\ last'.result = "false"
        /\ ledger' = ledger
        /\ accounts' = accounts]_vars

(* A withdrawal the account could pay failed at the store. *)
WithdrawWriteFailed ==
    /\ last.op = "withdraw"
    /\ last.result = "false"
    /\ ~writes[1]
    /\ can_withdraw(accounts[last.aid], last.amount)

(* The balance writes of the call succeeded and one of its ledger writes
   failed. *)
LedgerWriteFailed ==
    /\ last'.result \notin Errors
    /\ \/ /\ last'.op \in {"deposit", "withdraw"}
          /\ writes'[1]
          /\ ~writes'[2]
       \/ /\ last'.op = "transfer"
          /\ writes'[1] /\ writes'[2]
          /\ ~(writes'[3] /\ writes'[4])
       \/ /\ last'.op = "calculate_interest"
          /\ last'.amount > 0
          /\ writes'[1]
          /\ ~writes'[3]

(* C15: when the balance write of a deposit, withdrawal, transfer or interest
   accrual succeeds and the write of its ledger entry fails, the balance
   stays written and the call does not report success. *)
LedgerFailureSurfaced ==
    [][LedgerWriteFailed =>
        /\ accounts'[last'.aid].balance /= accounts[last'.aid].balance
        /\ last'.result /= "ok"]_vars

(* The bulk request is one the engine has to refuse: no legs, a leg with a
   non-positive amount or for the source itself, a source that is missing,
   inactive or frozen, a destination that is missing or inactive, or a total
   the source cannot pay above its minimum balance. *)
BulkRequestInvalid(from, legs) ==
    \/ legs = <<>>
    \/ ~Exists(from)
    \/ /\ Exists(from)
       /\ \/ ~accounts[from].is_active
          \/ accounts[from].is_frozen
          \/ accounts[from].balance - SumSeq([i \in DOMAIN legs |-> legs[i].amount])
                 < accounts[from].minimum_balance
    \/ \E i \in DOMAIN legs :
           \/ legs[i].amount <= 0
           \/ legs[i].to_account_id = from
           \/ ~Exists(legs[i].to_account_id)
           \/ /\ Exists(legs[i].to_account_id)
              /\ ~accounts[legs[i].to_account_id].is_active

(* C16: bulk_transfer validates the whole request before it moves money: an
   invalid request is refused, and a refused request has changed no balance
   and no ledger entry of any account. *)
BulkValidatesFirst ==
    [][last'.op = "bulk_transfer" =>
        /\ BulkRequestInvalid(last'.aid, last'.legs) => last'.result \in Errors
        /\ last'.result \in Errors => (accounts' = accounts /\ ledger' = ledger)]_vars

(* A request of two legs was refused for its total although the source could
   have paid the first leg. *)
BulkRefusedForTotal ==
    /\ last.op = "bulk_transfer"
    /\ last.result = "insufficient_funds"
    /\ Len(last.legs) = 2
    /\ accounts[last.aid].balance - last.legs[1].amount
           >= accounts[last.aid].minimum_balance

(* The number of successful legs up to leg i. *)
Rank(succeeded, i) == Cardinality({k \in succeeded : k <= i})

(* C17: a bulk transfer that passed validation returns its report and never
   raises: the legs reported successful are exactly those whose two balance
   writes succeeded, whatever happened to the legs before them, and the
   ledger gains the two entries of each successful leg and nothing for a
   failed one. *)
BulkAlwaysReports ==
    [][(last'.op = "bulk_transfer" /\ last'.result \notin Errors) =>
        LET from == last'.aid
            legs == last'.legs
            done == last'.succeeded
            n == Len(ledger)
        IN /\ last'.result = "ok"
           /\ done = {i \in DOMAIN legs : writes'[4 * (i - 1) + 1] /\ writes'[4 * (i - 1) + 2]}
           /\ Len(ledger') = n + 2 * Cardinality(done)
           /\ SubSeq(ledger', 1, n) = ledger
           /\ \A i \in done :
                  LET out == ledger'[n + 2 * Rank(done, i) - 1]
                      in == ledger'[n + 2 * Rank(done, i)]
                  IN /\ out.transaction_type = "bulk_transfer_out"
                     /\ out.account_id = from
                     /\ out.related_account_id = legs[i].to_account_id
                     /\ out.amount = legs[i].amount
                     /\ in.transaction_type = "bulk_transfer_in"
                     /\ in.account_id = legs[i].to_account_id
                     /\ in.related_account_id = from
                     /\ in.amount = legs[i].amount]_vars

(* The first leg failed at the store and the second was still carried out. *)
BulkSecondLegDone ==
    /\ last.op = "bulk_transfer"
    /\ last.result = "ok"
    /\ Len(last.legs) = 2
    /\ last.succeeded = {2}

(* The arguments of the create_account call are ones the engine has to
   refuse: a name that is empty or all blanks, a negative deposit, a negative
   minimum, or a deposit below the minimum. *)
CreateArgumentsInvalid(reply) ==
    \/ \A i \in DOMAIN reply.args.customer_name : reply.args.customer_name[i] = " "
    \/ reply.amount < 0
    \/ reply.args.minimum_balance < 0
    \/ reply.amount < reply.args.minimum_balance

(* C18: create_account with an empty or blank name, a negative deposit, a
   negative minimum or a deposit below the minimum is refused as a validation
   error and creates no account and no ledger entry; an account that is
   created starts with balance >= minimum_balance >= 0. *)
CreateValidates ==
    [][last'.op = "create_account" =>
        /\ CreateArgumentsInvalid(last') =>
               /\ last'.result = "validation"
               /\ accounts' = accounts
               /\ ledger' = ledger
        /\ last'.result = "ok" =>
               /\ Len(accounts') = Len(accounts) + 1
               /\ accounts'[last'.aid].balance >= accounts'[last'.aid].minimum_balance
               /\ accounts'[last'.aid].minimum_balance >= 0]_vars

(* A call with a name of blanks, and amounts that are in order, was refused
   at a store that holds an account. *)
BlankNameRefused ==
    /\ last.op = "create_account"
    /\ last.result = "validation"
    /\ last.args.customer_name = <<" ">>
    /\ last.amount >= last.args.minimum_balance
    /\ last.args.minimum_balance >= 0
    /\ accounts /= <<>>

(* C19: a successful create_account adds one account, active and not frozen,
   whose balance is the initial deposit; it appends one deposit entry whose
   amount and balance_after are the initial deposit when that is positive,
   and no entry when it is zero. *)
CreateEffect ==
    [][(last'.op = "create_account" /\ last'.result = "ok") =>
        /\ Len(accounts') = Len(accounts) + 1
        /\ SubSeq(accounts', 1, Len(accounts)) = accounts
        /\ last'.aid = Len(accounts')
        /\ accounts'[last'.aid].is_active
        /\ ~accounts'[last'.aid].is_frozen
        /\ accounts'[last'.aid].balance = last'.amount
        /\ last'.amount > 0 =>
               /\ Len(ledger') = Len(ledger) + 1
               /\ SubSeq(ledger', 1, Len(ledger)) = ledger
               /\ ledger'[Len(ledger')].account_id = last'.aid
               /\ ledger'[Len(ledger')].transaction_type = "deposit"
               /\ ledger'[Len(ledger')].amount = last'.amount
               /\ ledger'[Len(ledger')].balance_after = last'.amount
        /\ last'.amount = 0 => ledger' = ledger]_vars

(* An account was created with no money after one that was created with
   money: the ledger holds the entry of the first alone. *)
CreatedWithAndWithoutDeposit ==
    /\ last.op = "create_account"
    /\ last.result = "ok"
    /\ last.amount = 0
    /\ last.aid = 2
    /\ accounts[1].balance > 0
    /\ Len(ledger) = 1

(* C20: no two stored accounts share an account number, whatever numbers
   the generator proposed. *)
AccountNumbersUnique ==
    \A i, j \in DOMAIN accounts :
        accounts[i].account_number = accounts[j].account_number => i = j

(* The generator first proposed the number of a stored account, and the
   account was created with its second proposal. *)
CollisionRetried ==
    /\ last.op = "create_account"
    /\ last.result = "ok"
    /\ Len(last.args.candidates) = 2
    /\ \E i \in 1..(last.aid - 1) :
           accounts[i].account_number = last.args.candidates[1]
    /\ accounts[last.aid].account_number = last.args.candidates[2]

(* C21: deactivate_account succeeds only on an existing account whose
   balance is 0, and then clears is_active and changes nothing else, the
   ledger included; on an account with another balance it is refused and
   the account is left as it was. *)
DeactivateEffect ==
    [][last'.op = "deactivate_account" =>
        LET aid == last'.aid
        IN /\ last'.result = "ok" =>
                  /\ Exists(aid)
                  /\ accounts[aid].balance = 0
                  /\ accounts' = [accounts EXCEPT ![aid].is_active = FALSE]
                  /\ ledger' = ledger
           /\ (Exists(aid) /\ accounts[aid].balance /= 0) =>
                  /\ last'.result = "validation"
                  /\ accounts' = accounts
                  /\ ledger' = ledger
           /\ ~Exists(aid) =>
                  /\ last'.result = "not_found"
                  /\ accounts' = accounts
                  /\ ledger' = ledger]_vars

(* An account that had been paid into and emptied was closed. *)
EmptiedThenClosed ==
    /\ last.op = "deactivate_account"
    /\ last.result = "ok"
    /\ ~accounts[last.aid].is_active
    /\ accounts[last.aid].balance = 0
    /\ \E i \in DOMAIN ledger :
           ledger[i].account_id = last.aid /\ ledger[i].transaction_type = "withdrawal"

(* The call named by the reply moves money to or from account i, freezes it
   or accrues its interest. *)
Touches(reply, i) ==
    \/ reply.op \in {"deposit", "withdraw", "freeze_account", "calculate_interest"}
           /\ reply.aid = i
    \/ reply.op = "transfer" /\ (reply.aid = i \/ reply.to = i)
    \/ reply.op = "bulk_transfer"
           /\ \/ reply.aid = i
              \/ \E k \in DOMAIN reply.legs : reply.legs[k].to_account_id = i

(* C22: inactive is terminal: an inactive account stays inactive with its
   balance of 0, and every deposit, withdrawal, transfer, bulk transfer,
   freeze and interest accrual that touches it is refused. *)
InactiveIsTerminal ==
    [][\A i \in DOMAIN accounts :
          ~accounts[i].is_active =>
              /\ ~accounts'[i].is_active
              /\ accounts[i].balance = 0
              /\ accounts'[i].balance = 0
              /\ Touches(last', i) => last'.result \in Errors]_vars

(* A deposit of a positive amount into a closed account was refused. *)
DepositIntoClosedRefused ==
    /\ last.op = "deposit"
    /\ last.amount > 0
    /\ Exists(last.aid)
    /\ ~accounts[last.aid].is_active
    /\ last.result = "inactive"

(* The call flipped is_frozen of account aid to flag, changed no other field
   of any account, and appended one fee entry of amount 0 whose balance_after
   is the balance of the account. *)
Flipped(aid, flag) ==
    /\ accounts' = [accounts EXCEPT ![aid].is_frozen = flag]
    /\ accounts[aid].is_frozen /= flag
    /\ Len(ledger') = Len(ledger) + 1
    /\ SubSeq(ledger', 1, Len(ledger)) = ledger
    /\ ledger'[Len(ledger')].account_id = aid
    /\ ledger'[Len(ledger')].transaction_type = "fee"
    /\ ledger'[Len(ledger')].amount = 0
    /\ ledger'[Len(ledger')].balance_after = accounts'[aid].balance

(* C23: freeze_account succeeds exactly on an existing, active account that
   is not frozen, and is refused otherwise as not found, already frozen or
   inactive; unfreeze_account succeeds exactly on an existing frozen account,
   and is refused otherwise as not found or not frozen; a success flips
   is_frozen, keeps the balance and appends one fee entry of amount 0 with
   the balance; a refusal changes nothing. *)
FreezeStateMachine ==
    [][/\ last'.op = "freeze_account" =>
            LET aid == last'.aid
                allowed == /\ Exists(aid)
                           /\ accounts[aid].is_active
                           /\ ~accounts[aid].is_frozen
            IN /\ allowed => (last'.result = "ok" /\ Flipped(aid, TRUE))
               /\ ~allowed =>
                      /\ accounts' = accounts /\ ledger' = ledger
                      /\ last'.result = IF ~Exists(aid) THEN "not_found"
                                        ELSE IF accounts[aid].is_frozen THEN "already_frozen"
                                        ELSE "inactive"
       /\ last'.op = "unfreeze_account" =>
            LET aid == last'.aid
                allowed == Exists(aid) /\ accounts[aid].is_frozen
            IN /\ allowed => (last'.result = "ok" /\ Flipped(aid, FALSE))
               /\ ~allowed =>
                      /\ accounts' = accounts /\ ledger' = ledger
                      /\ last'.result = IF ~Exists(aid) THEN "not_found"
                                        ELSE "not_frozen"]_vars

(* An account holding money was frozen and unfrozen again, and a second
   unfreeze was refused. *)
UnfrozenTwice ==
    /\ last.op = "unfreeze_account"
    /\ last.result = "not_frozen"
    /\ accounts[last.aid].balance > 0
    /\ Len(ledger) >= 3
    /\ ledger[Len(ledger)].description = "Account unfrozen"
    /\ ledger[Len(ledger)].balance_after = accounts[last.aid].balance

(* C24: a successful set_daily_withdrawal_limit stores the limit it was
   given, a limit of 0 included; only an absent limit clears the stored one. *)
LimitPersisted ==
    [][(last'.op = "set_daily_withdrawal_limit" /\ last'.result = "ok") =>
        accounts'[last'.aid].daily_withdrawal_limit = last'.amount]_vars

(* The day from which the interest of the account is due. *)
InterestSince(account) ==
    IF account.last_interest_calculation /= None
    THEN account.last_interest_calculation
    ELSE account.created_at

(* C25: calculate_interest on an active account with a positive rate, at
   least one day after the last accrual (or the creation) and with a rounded
   amount above 0, adds the returned amount to the balance, sets
   last_interest_calculation to the time of the call and appends one interest
   entry whose balance_after is the new balance; a call at the time of the
   last accrual returns 0 and changes nothing. *)
InterestAccrual ==
    [][(last'.op = "calculate_interest" /\ Exists(last'.aid)
            /\ accounts[last'.aid].is_active) =>
        LET aid == last'.aid
            account == accounts[aid]
            days_passed == now - InterestSince(account)
        IN /\ ( /\ account.interest_rate > 0
                /\ days_passed >= 1
                /\ InterestAmount(account.balance, account.interest_rate, days_passed) > 0 ) =>
                  /\ last'.result = "ok"
                  /\ last'.amount > 0
                  /\ accounts' = [accounts EXCEPT
                                     ![aid].balance = account.balance + last'.amount,
                                     ![aid].last_interest_calculation = now]
                  /\ Len(ledger') = Len(ledger) + 1
                  /\ SubSeq(ledger', 1, Len(ledger)) = ledger
                  /\ ledger'[Len(ledger')].account_id = aid
                  /\ ledger'[Len(ledger')].transaction_type = "interest"
                  /\ ledger'[Len(ledger')].amount = last'.amount
                  /\ ledger'[Len(ledger')].balance_after = account.balance + last'.amount
           /\ account.last_interest_calculation = now =>
                  /\ last'.result = "ok"
                  /\ last'.amount = 0
                  /\ accounts' = accounts
                  /\ ledger' = ledger]_vars

(* Interest was accrued and asked for again at once: the second call
   returned 0. *)
InterestAskedTwice ==
    /\ last.op = "calculate_interest"
    /\ last.result = "ok"
    /\ last.amount = 0
    /\ Exists(last.aid)
    /\ accounts[last.aid].interest_rate > 0
    /\ accounts[last.aid].last_interest_calculation = now
    /\ ledger /= <<>>
    /\ ledger[Len(ledger)].transaction_type = "interest"
    /\ ledger[Len(ledger)].account_id = last.aid

(* The net change of the account over the entries of the month: the credits
   (deposits, transfers in, interest) less the debits (withdrawals, transfers
   out, fees). *)
NetChange(aid, month) ==
    LET rows == SelectSeq(ledger, LAMBDA t : t.account_id = aid /\ Month(t.timestamp) = month)
        signed == [i \in DOMAIN rows |->
                      IF rows[i].transaction_type \in CreditTypes
                      THEN rows[i].amount
                      ELSE 0 - rows[i].amount]
    IN SumSeq(signed)

(* C26: the monthly statement of an account reports the current balance as
   closing_balance and closing_balance less the net change of the month as
   opening_balance, for every month, one without entries included. *)
StatementBalances ==
    [][(last'.op = "get_monthly_statement" /\ Exists(last'.aid)) =>
        /\ last'.args.closing_balance = accounts[last'.aid].balance
        /\ last'.args.net_change = NetChange(last'.aid, last'.amount)
        /\ last'.args.opening_balance
               = accounts[last'.aid].balance - NetChange(last'.aid, last'.amount)]_vars

(* C27: a read operation changes no field of any account and no ledger
   entry. *)
ReadsChangeNothing ==
    [][last'.op \in ReadOps =>
        /\ accounts' = accounts
        /\ ledger' = ledger
        /\ now' = now]_vars

(* The statement of a month with entries was read after money had moved
   between two accounts. *)
StatementReadAfterTransfer ==
    /\ last.op = "get_monthly_statement"
    /\ Exists(last.aid)
    /\ last.args.transaction_count >= 1
    /\ last.args.total_transfers_in > 0

(* The number of entries the call named by the reply has to append. *)
EntriesDue(reply) ==
    IF reply.op \in {"deposit", "withdraw", "freeze_account", "unfreeze_account",
                     "set_daily_withdrawal_limit"}
    THEN IF reply.result = "ok" THEN 1 ELSE 0
    ELSE IF reply.op = "transfer"
    THEN IF reply.result = "ok" THEN 2 ELSE 0
    ELSE IF reply.op = "bulk_transfer"
    THEN IF reply.result = "ok" THEN 2 * Cardinality(reply.succeeded) ELSE 0
    ELSE IF reply.op = "calculate_interest"
    THEN IF reply.result = "ok" /\ reply.amount > 0 THEN 1 ELSE 0
    ELSE 0

(* C28: a successful deposit, withdrawal, freeze, unfreeze or limit setting
   appends one ledger entry, a successful transfer and a successful bulk leg
   two, an accruing calculate_interest one; deactivate_account and every call
   that is refused or reports failure append none; no entry is ever changed
   or removed. *)
EntriesPerCall ==
    [][/\ SubSeq(ledger', 1, Len(ledger)) = ledger
       /\ last'.op \in {"deposit", "withdraw", "freeze_account", "unfreeze_account",
                        "set_daily_withdrawal_limit", "transfer", "bulk_transfer",
                        "calculate_interest", "deactivate_account"} =>
              Len(ledger') = Len(ledger) + EntriesDue(last')]_vars

(* A withdrawal reported failure at the store and left the ledger, which
   already held entries, as it was. *)
WithdrawalReportedFailure ==
    /\ last.op = "withdraw"
    /\ last.result = "false"
    /\ ~writes[1]
    /\ Len(ledger) >= 2

(* The positions, among the store writes of a call, of the writes of one
   kind. *)
Positions(calls, write) == {i \in DOMAIN calls : calls[i].write = write}

(* C29: within a call, the ledger write of a leg comes after the balance
   write of that leg for the same account, and only if that balance write
   succeeded; in transfer the source's balance write, then the
   destination's, come before both ledger writes; for create_account the
   ledger write comes after the successful write of the account.  The
   entries and the balances that changed are those of the successful
   writes. *)
WriteOrdering ==
    [][LET calls == last'.calls
           ledgers == Positions(calls, "create_transaction")
           balances == Positions(calls, "update_account_balance")
       IN /\ last'.op \in {"deposit", "withdraw", "transfer", "bulk_transfer",
                           "calculate_interest"} =>
                 \A i \in ledgers :
                     \E j \in balances :
                         /\ j < i
                         /\ calls[j].account_id = calls[i].account_id
                         /\ calls[j].leg = calls[i].leg
                         /\ calls[j].ok
          /\ last'.op = "transfer" =>
                 /\ \A i \in ledgers, j \in balances : j < i
                 /\ \A j \in balances :
                        calls[j].account_id = IF j = 1 THEN last'.aid ELSE last'.to
          /\ last'.op = "create_account" =>
                 \A i \in ledgers :
                     \E j \in Positions(calls, "create_account") : j < i /\ calls[j].ok
          /\ Len(ledger') = Len(ledger) + Cardinality({i \in ledgers : calls[i].ok})
          /\ \A a \in DOMAIN accounts :
                 accounts'[a].balance /= accounts[a].balance =>
                     \E j \in balances : calls[j].account_id = a /\ calls[j].ok]_vars

(* A transfer wrote both balances and then both entries. *)
TransferWroteInOrder ==
    /\ last.op = "transfer"
    /\ Len(last.calls) = 4
    /\ last.calls[1] = BalanceWrite(last.aid, 1, TRUE)
    /\ last.calls[2] = BalanceWrite(last.to, 1, TRUE)
    /\ last.calls[3] = LedgerWrite(last.aid, 1, TRUE)
    /\ last.calls[4] = LedgerWrite(last.to, 1, TRUE)

(* The arguments of the call named by the reply are malformed: a
   non-positive amount, a transfer or a bulk leg to the source itself, an
   empty bulk list, a negative daily limit, or create_account arguments that
   are not in order. *)
Malformed(reply) ==
    \/ reply.op \in {"deposit", "withdraw", "transfer"} /\ reply.amount <= 0
    \/ reply.op = "transfer" /\ reply.aid = reply.to
    \/ reply.op = "bulk_transfer"
           /\ \/ reply.legs = <<>>
              \/ \E i \in DOMAIN reply.legs :
                     \/ reply.legs[i].amount <= 0
                     \/ reply.legs[i].to_account_id = reply.aid
    \/ reply.op = "set_daily_withdrawal_limit"
           /\ reply.amount /= None /\ reply.amount < 0
    \/ reply.op = "create_account" /\ CreateArgumentsInvalid(reply)

(* C30: a call with malformed arguments is refused as a validation error,
   whatever the store holds, also when the account it names does not
   exist. *)
ValidationFirst ==
    [][Malformed(last') => last'.result = "validation"]_vars


(* C31: when a transfer's write of the source balance succeeds and its write
   of the destination balance fails, the transfer returns False, writes no
   ledger entry and attempts no further write: the source stays debited by
   the amount and the destination keeps its balance.  When the write of the
   source balance fails, no balance changes and the destination is not
   written. *)
TransferResidualGap ==
    [][(/\ last'.op = "transfer"
        /\ last'.result \notin Errors
        /\ ~(writes'[1] /\ writes'[2])) =>
        /\ last'.result = "false"
        /\ ledger' = ledger
        /\ IF writes'[1]
           THEN /\ last'.calls = <<BalanceWrite(last'.aid, 1, TRUE),
                                   BalanceWrite(last'.to, 1, FALSE)>>
                /\ accounts' = [accounts EXCEPT
                                   ![last'.aid].balance = @ - last'.amount]
           ELSE /\ last'.calls = <<BalanceWrite(last'.aid, 1, FALSE)>>
                /\ accounts' = accounts]_vars

(* After a deposit of 0.20, a transfer of 0.10 debited the source and its
   credit failed: 0.10 is gone from the books. *)
SourceDebitedAlone ==
    /\ last.op = "transfer"
    /\ last.result = "false"
    /\ Len(last.calls) = 2
    /\ last.calls[1].ok
    /\ ~last.calls[2].ok
    /\ accounts[last.aid].balance = 10
    /\ TotalBalance(accounts) = 10
    /\ ledger /= <<>>

(* The amounts of the legs in done that name the account to. *)
DoneAmountsTo(legs, done, to) ==
    LET idx == {i \in done : legs[i].to_account_id = to}
        RECURSIVE Sum(_)
        Sum(rest) == IF rest = {} THEN 0
                     ELSE LET i == CHOOSE i \in rest : TRUE
                          IN legs[i].amount + Sum(rest \ {i})
    IN Sum(idx)

(* C32: after a bulk transfer has returned its report, whatever balance
   writes failed at the store, the source holds its balance before the call
   less the amounts of the legs reported successful, and every destination
   holds its balance before the call plus the amounts of the successful legs
   naming it.  Stated for requests whose legs name different accounts. *)
BulkLegIsolation ==
    [][(/\ last'.op = "bulk_transfer"
        /\ last'.result = "ok"
        /\ \A i, j \in DOMAIN last'.legs :
               i /= j => last'.legs[i].to_account_id /= last'.legs[j].to_account_id) =>
        LET from == last'.aid
            legs == last'.legs
            done == last'.succeeded
        IN /\ accounts'[from].balance
                  = accounts[from].balance
                        - SumSeq([i \in DOMAIN legs |->
                                     IF i \in done THEN legs[i].amount ELSE 0])
           /\ \A to \in DOMAIN accounts \ {from} :
                  accounts'[to].balance
                      = accounts[to].balance + DoneAmountsTo(legs, done, to)]_vars

(* C33: the ledger is append-only.  No call changes or removes an entry: the
   ledger before a call is a prefix of the ledger after it, so the
   balance_after of a recorded entry is never written again. *)
LedgerAppendOnly ==
    [][/\ Len(ledger') >= Len(ledger)
       /\ \A i \in DOMAIN ledger :
              /\ ledger'[i] = ledger[i]
              /\ ledger'[i].balance_after = ledger[i].balance_after]_vars

(* The account of the first entry has moved on: its balance is no longer the
   balance_after recorded then, and a later entry has been appended. *)
OldEntryKept ==
    /\ Len(ledger) >= 2
    /\ accounts[ledger[1].account_id].balance /= ledger[1].balance_after
    /\ ledger[Len(ledger)].account_id = ledger[1].account_id
    /\ ledger[Len(ledger)].balance_after /= ledger[1].balance_after

(* The position of the entry last appended for the account aid, 0 if the
   ledger has none. *)
LastEntry(aid) ==
    LET own == {i \in DOMAIN ledger : ledger[i].account_id = aid}
    IN IF own = {} THEN 0 ELSE CHOOSE i \in own : \A j \in own : j <= i

(* C34: without store failures, the balance_after of the entry last appended
   for an account is the account's stored balance, and an account without
   any entry has balance 0. *)
BalanceAfterSnapshot ==
    \A aid \in DOMAIN accounts :
        IF LastEntry(aid) = 0
        THEN accounts[aid].balance = 0
        ELSE ledger[LastEntry(aid)].balance_after = accounts[aid].balance

(* A bulk transfer paid the same account in both of its legs; the entry of
   the second leg is the last of the ledger. *)
SnapshotAfterRepeatedLeg ==
    /\ last.op = "bulk_transfer"
    /\ last.succeeded = {1, 2}
    /\ last.legs[1].to_account_id = last.legs[2].to_account_id
    /\ ledger[Len(ledger)].account_id = last.legs[2].to_account_id
    /\ ledger[Len(ledger)].transaction_type = "bulk_transfer_in"

(* What the ledger says the account aid holds: the amounts of its entries
   that credit it less the amounts of its entries that debit it. *)
LedgerBalance(aid) ==
    SumSeq([i \in DOMAIN ledger |->
               IF ledger[i].account_id /= aid THEN 0
               ELSE IF ledger[i].transaction_type \in CreditTypes
               THEN ledger[i].amount
               ELSE 0 - ledger[i].amount])

(* C35: without store failures, the balance of every account is the sum of
   the amounts of its deposit, transfer_in, bulk_transfer_in and interest
   entries less the sum of the amounts of its withdrawal, transfer_out,
   bulk_transfer_out and fee entries. *)
LedgerReconstructsBalance ==
    \A aid \in DOMAIN accounts : accounts[aid].balance = LedgerBalance(aid)

(* C36: calculate_interest on an active account returns 0 and leaves the
   balance, last_interest_calculation and the ledger as they were when the
   rate is not positive, when less than a day has passed since the last
   accrual (or the creation), or when the rounded amount is 0.  A call whose
   amount rounds to 0 does not move the day the interest is due from. *)
InterestNothingDue ==
    [][(/\ last'.op = "calculate_interest"
        /\ Exists(last'.aid)
        /\ accounts[last'.aid].is_active
        /\ LET account == accounts[last'.aid]
               days_passed == now - InterestSince(account)
           IN \/ account.interest_rate <= 0
              \/ days_passed < 1
              \/ InterestAmount(account.balance, account.interest_rate, days_passed) = 0) =>
        /\ last'.result = "ok"
        /\ last'.amount = 0
        /\ accounts' = accounts
        /\ ledger' = ledger
        /\ InterestSince(accounts'[last'.aid]) = InterestSince(accounts[last'.aid])]_vars

(* Interest was asked for a day or more after the creation of an account
   with a balance and a positive rate, and rounded to nothing: the account
   has still never accrued. *)
ZeroRoundedAccrual ==
    /\ last.op = "calculate_interest"
    /\ last.result = "ok"
    /\ last.amount = 0
    /\ Exists(last.aid)
    /\ accounts[last.aid].interest_rate > 0
    /\ accounts[last.aid].balance > 0
    /\ now - accounts[last.aid].created_at >= 1
    /\ accounts[last.aid].last_interest_calculation = None

(* n / d to the nearest integer, halves upwards, for n >= 0 and d > 0. *)
RoundHalfUp(n, d) == (2 * n + d) \div (2 * d)

(* C37: the interest accrued is balance * interest_rate * whole days passed
   / 365 / 100 rounded to two decimal places, halves upwards: an amount
   halfway between two kopecks goes to the higher one. *)
InterestRoundsHalfUp ==
    [][(/\ last'.op = "calculate_interest"
        /\ Exists(last'.aid)
        /\ accounts[last'.aid].is_active
        /\ accounts[last'.aid].interest_rate > 0
        /\ now - InterestSince(accounts[last'.aid]) >= 1) =>
        last'.amount = RoundHalfUp(accounts[last'.aid].balance
                                       * accounts[last'.aid].interest_rate
                                       * (now - InterestSince(accounts[last'.aid])),
                                   365 * 100 * 100)]_vars

(* C38: without store failures, an account created with a minimum balance
   above 0 is never deactivated: its balance stays at or above the minimum,
   deactivate_account is refused on it every time, and it stays active. *)
MinimumKeepsOpen ==
    [][\A aid \in DOMAIN accounts :
           accounts[aid].minimum_balance > 0 =>
               /\ accounts[aid].is_active
               /\ accounts[aid].balance >= accounts[aid].minimum_balance
               /\ accounts'[aid].is_active
               /\ accounts'[aid].minimum_balance = accounts[aid].minimum_balance
               /\ (last'.op = "deactivate_account" /\ last'.aid = aid) =>
                      last'.result = "validation"]_vars

(* An account with a minimum balance was drawn down to the minimum, and the
   call to deactivate it was refused. *)
CloseRefusedAtMinimum ==
    /\ last.op = "deactivate_account"
    /\ last.result = "validation"
    /\ accounts[last.aid].minimum_balance > 0
    /\ accounts[last.aid].balance = accounts[last.aid].minimum_balance
    /\ accounts[last.aid].is_active
    /\ \E i \in DOMAIN ledger :
           ledger[i].account_id = last.aid
           /\ ledger[i].transaction_type \in DebitTypes
=============================================================================
